---------------------------- MODULE Spec2Model ----------------------------
(***************************************************************************)
(* A model of the colour-reduction core of MiniPNG:                        *)
(*   - the channel quantizer            (src/src/minify.rs)                *)
(*   - the dithering mode selector      (src/src/dithering.rs)             *)
(*   - the dithering engines            (src/src/minify.rs)                *)
(*   - the median-cut palette builder   (src/src/median.rs)                *)
(*   - the image analyzer               (src/src/dithering.rs)             *)
(*   - the selective denoiser           (src/src/minify.rs)                *)
(*   - the command line                 (src/src/main.rs, arg_utils.rs)    *)
(*   - the lossy pipeline               (src/src/minify.rs)                *)
(*   - the marker chunk and minify_png  (src/src/minify.rs)                *)
(*   - batch mode                       (src/src/main.rs)                  *)
(*                                                                         *)
(* Each component has its own specification (SpecQuantize, SpecSelect,     *)
(* SpecDither, SpecMedian, SpecAnalyze, SpecDenoise, SpecCli,              *)
(* SpecPipeline, SpecFile, SpecBatch).  The variables of the components a  *)
(* specification does not run stay at their idle values.                   *)
(*                                                                         *)
(* Conventions.  A pixel or Color is a tuple <<r, g, b, a>>.  An image is  *)
(* a function from positions <<x, y>> to pixels.  The f64 metrics          *)
(* edge_density and detail_frequency are ratios and are held in            *)
(* hundredths (0.15 is 15); gradient_smoothness and local_variance are     *)
(* held in whole units (5.0 is 5).                                         *)
(***************************************************************************)
EXTENDS Integers, Sequences, FiniteSets, TLC

VARIABLES
    \* quantize_channel(value, factor) -> result
    qc_pc, qc_value, qc_factor, qc_result,
    \* select_optimal_mode(analysis) -> mode
    sel_pc, analysis, sel_mode,
    \* a dithering engine transforming rgba into quantized_img
    d_pc, d_mode, d_width, d_height, d_factor, d_rgba,
    working_buffer, d_visited, d_overflow, quantized_img,
    \* quantize_image_with_median(rgba, max_colors) -> quantized
    m_pc, m_width, m_height, m_rgba, max_colors, boxes, palette,
    m_rows, m_rows_done, m_quantized,
    \* main: the command line, the parsed Args, the error main returns, the mode it parsed,
    \* the downsampling factor it printed and the one the transform used
    cli_pc, cli_line, cli_args, cli_error, dithering_mode, printed_factor,
    used_factor,
    \* recommend_dithering_mode(img) -> mode, in a build with or without
    \* overflow checks
    an_pc, an_build, an_width, an_height, an_rgba, an_result, an_mode,
    \* apply_selective_denoising(img) -> result, applied dn_passes times
    dn_passes, dn_width, dn_height, dn_rgba, dn_source, dn_result,
    \* apply_quality_lossy_minification / apply_quantization on p_img with
    \* the requested mode: the analysis, the effective mode, the outcome
    p_pc, p_entry, p_build, p_quality, p_width, p_height, p_img, p_requested,
    p_denoise, p_analysis, p_effective, p_out,
    \* add_minification_marker_with_info(mk_png, mk_args) -> mk_result, and
    \* is_already_minified on its result -> mk_found
    mk_pc, mk_png, mk_args, mk_result, mk_found,
    \* minify_png(source_path, target_path, mp_args) -> mp_result, run up to
    \* MpMaxRuns times on the file it leaves
    mp_pc, mp_source, mp_same, mp_target, mp_args, mp_now, mp_runs, mp_ran,
    mp_saved, mp_written, mp_prev_saved, mp_result,
    \* main in batch mode: the files, what process_file does with each, the
    \* pool threads, the three mutexes and what they guard, the indices
    \* printed
    b_pc, b_total, b_outcome, b_pending, b_worker, b_lock, processed,
    b_printed, results, errors, b_panic

qvars == <<qc_pc, qc_value, qc_factor, qc_result>>
svars == <<sel_pc, analysis, sel_mode>>
dvars == <<d_pc, d_mode, d_width, d_height, d_factor, d_rgba,
           working_buffer, d_visited, d_overflow, quantized_img>>
mvars == <<m_pc, m_width, m_height, m_rgba, max_colors, boxes, palette,
           m_rows, m_rows_done, m_quantized>>
cvars == <<cli_pc, cli_line, cli_args, cli_error, dithering_mode, printed_factor,
           used_factor>>
avars == <<an_pc, an_build, an_width, an_height, an_rgba, an_result, an_mode>>
nvars == <<dn_passes, dn_width, dn_height, dn_rgba, dn_source, dn_result>>
pvars == <<p_pc, p_entry, p_build, p_quality, p_width, p_height, p_img,
           p_requested, p_denoise, p_analysis, p_effective, p_out>>
fvars == <<mk_pc, mk_png, mk_args, mk_result, mk_found,
           mp_pc, mp_source, mp_same, mp_target, mp_args, mp_now, mp_runs,
           mp_ran, mp_saved, mp_written, mp_prev_saved, mp_result>>
bvars == <<b_pc, b_total, b_outcome, b_pending, b_worker, b_lock, processed,
           b_printed, results, errors, b_panic>>
vars == <<qvars, svars, dvars, mvars, cvars, avars, nvars, pvars, fvars, bvars>>

---------------------------------------------------------------------------
(* Integer helpers *)

\* Rust's integer division truncates toward zero (b > 0).
TruncDiv(a, b) == IF a >= 0 THEN a \div b ELSE -((-a) \div b)

\* i16::clamp / u8 range clamp.
Clamp(v, lo, hi) == IF v < lo THEN lo ELSE IF v > hi THEN hi ELSE v

MinI16 == -32768
MaxI16 == 32767

\* The downsampling factors apply_quantization derives from the quality.
Factors == {8, 12, 16, 32}

---------------------------------------------------------------------------
(* Channel quantizer: minify.rs quantize_channel *)

\* A plausible slip: the quotient is not multiplied back by the factor.
quantize_channel_no_scale(value, factor) ==
    LET clamped == Clamp(value, 0, 255)
    IN  Clamp(TruncDiv(clamped + factor \div 2, factor), 0, 255)

quantize_channel(value, factor) ==
    LET clamped   == Clamp(value, 0, 255)
        quantized == TruncDiv(clamped + factor \div 2, factor) * factor
    IN  Clamp(quantized, 0, 255)

\* How far below 0 and above 255 the enumerated inputs reach.
QRange == 300

\* The i16 inputs enumerated: every in-range value, out-of-range values as
\* error diffusion produces them, and the two ends of i16.
QValues == ((0 - QRange) .. (255 + QRange)) \cup {MinI16, MaxI16}

QInit ==
    /\ qc_pc = "call"
    /\ qc_value \in QValues
    /\ qc_factor \in Factors
    /\ qc_result = 0

QIdle ==
    /\ qc_pc = "idle"
    /\ qc_value = 0
    /\ qc_factor = 8
    /\ qc_result = 0

QuantizeCall ==
    /\ qc_pc = "call"
    /\ qc_result' = quantize_channel(qc_value, qc_factor)
    /\ qc_pc' = "done"
    /\ UNCHANGED <<qc_value, qc_factor>>

---------------------------------------------------------------------------
(* Mode selector: dithering.rs select_optimal_mode *)

\* Thresholds (dithering.rs 284-291); ratios in hundredths.
SMOOTH_GRADIENT_THRESHOLD == 5
LOW_EDGE_THRESHOLD == 15
LOW_VARIANCE_THRESHOLD == 200
LOW_COLOR_DIVERSITY == 100
MODERATE_COLOR_DIVERSITY == 300
HIGH_COLOR_DIVERSITY == 500
HIGH_DETAIL_FREQUENCY == 25
PHOTO_EDGE_THRESHOLD == 35
\* The literals of the last two rules: 0.4, 600.0 and 0.3.
VERY_HIGH_EDGE == 40
HIGH_VARIANCE == 600
ORDERED_EDGE == 30

\* Rule 1 (296): very smooth gradient with low complexity.
RuleSmooth(a) ==
    /\ a.gradient_smoothness < SMOOTH_GRADIENT_THRESHOLD
    /\ a.edge_density < LOW_EDGE_THRESHOLD
    /\ a.local_variance < LOW_VARIANCE_THRESHOLD

\* A plausible slip: the edge comparison of rule 2 is not strict.
RuleFewColors_inclusive(a) ==
    /\ a.color_diversity < LOW_COLOR_DIVERSITY
    /\ a.edge_density <= LOW_EDGE_THRESHOLD

\* Rule 2 (302): simple image with few colours.
RuleFewColors(a) ==
    /\ a.color_diversity < LOW_COLOR_DIVERSITY
    /\ a.edge_density < LOW_EDGE_THRESHOLD

\* A plausible slip: the upper diversity bound is taken for the lower one.
RuleMedianCut_high(a) ==
    /\ a.color_diversity > HIGH_COLOR_DIVERSITY
    /\ a.edge_density > LOW_EDGE_THRESHOLD
    /\ a.edge_density < PHOTO_EDGE_THRESHOLD
    /\ a.detail_frequency < HIGH_DETAIL_FREQUENCY

\* Rule 3 (309): many distinct colours but not photo-like.
RuleMedianCut(a) ==
    /\ a.color_diversity > MODERATE_COLOR_DIVERSITY
    /\ a.color_diversity < HIGH_COLOR_DIVERSITY
    /\ a.edge_density > LOW_EDGE_THRESHOLD
    /\ a.edge_density < PHOTO_EDGE_THRESHOLD
    /\ a.detail_frequency < HIGH_DETAIL_FREQUENCY

\* Rule 4 (315): photo-like with high detail frequency.
RulePhotoDetail(a) ==
    /\ a.detail_frequency > HIGH_DETAIL_FREQUENCY
    /\ a.edge_density > PHOTO_EDGE_THRESHOLD
    /\ a.color_diversity > MODERATE_COLOR_DIVERSITY

\* A plausible slip: the diversity comparison of rule 5 is not strict.
RulePhotoComplex_inclusive(a) ==
    /\ a.edge_density > VERY_HIGH_EDGE
    /\ a.local_variance > HIGH_VARIANCE
    /\ a.color_diversity >= HIGH_COLOR_DIVERSITY

\* Rule 5 (321): high complexity photo-like content.
RulePhotoComplex(a) ==
    /\ a.edge_density > VERY_HIGH_EDGE
    /\ a.local_variance > HIGH_VARIANCE
    /\ a.color_diversity > HIGH_COLOR_DIVERSITY

\* Rule 6 (327): moderately complex but still fairly smooth.
RuleMildlySmooth(a) ==
    /\ a.gradient_smoothness < SMOOTH_GRADIENT_THRESHOLD * 2
    /\ a.edge_density < ORDERED_EDGE

\* A plausible slip: the default hands the unresolved mode back.
select_optimal_mode_auto(a) ==
    IF RuleSmooth(a) THEN "None"
    ELSE IF RuleFewColors(a) THEN "None"
    ELSE IF RuleMedianCut(a) THEN "MedianCut"
    ELSE IF RulePhotoDetail(a) THEN "FloydSteinberg"
    ELSE IF RulePhotoComplex(a) THEN "FloydSteinberg"
    ELSE IF RuleMildlySmooth(a) THEN "Ordered"
    ELSE "Auto"

\* The ordered decision list: the first rule that matches returns.
select_optimal_mode(a) ==
    IF RuleSmooth(a) THEN "None"
    ELSE IF RuleFewColors(a) THEN "None"
    ELSE IF RuleMedianCut(a) THEN "MedianCut"
    ELSE IF RulePhotoDetail(a) THEN "FloydSteinberg"
    ELSE IF RulePhotoComplex(a) THEN "FloydSteinberg"
    ELSE IF RuleMildlySmooth(a) THEN "Ordered"
    ELSE "Ordered"

\* The values enumerated for a metric: each threshold it is compared with,
\* the value just below and the value just above, and the two ends.
Around(t) == {t - 1, t, t + 1}

GradientValues == {0} \cup Around(SMOOTH_GRADIENT_THRESHOLD)
                      \cup Around(SMOOTH_GRADIENT_THRESHOLD * 2)
EdgeValues == {0, 100} \cup Around(LOW_EDGE_THRESHOLD) \cup Around(ORDERED_EDGE)
                       \cup Around(PHOTO_EDGE_THRESHOLD) \cup Around(VERY_HIGH_EDGE)
DiversityValues == {0, 4096} \cup Around(LOW_COLOR_DIVERSITY)
                             \cup {200}
                             \cup Around(MODERATE_COLOR_DIVERSITY)
                             \cup Around(HIGH_COLOR_DIVERSITY)
VarianceValues == {0} \cup Around(LOW_VARIANCE_THRESHOLD) \cup Around(HIGH_VARIANCE)
DetailValues == {0, 100} \cup Around(HIGH_DETAIL_FREQUENCY)

Analyses ==
    [gradient_smoothness : GradientValues,
     edge_density        : EdgeValues,
     color_diversity     : DiversityValues,
     local_variance      : VarianceValues,
     detail_frequency    : DetailValues]

\* The all-zero analysis of a zero-sized image, used while idle.
ZeroAnalysis ==
    [gradient_smoothness |-> 0, edge_density |-> 0, color_diversity |-> 0,
     local_variance |-> 0, detail_frequency |-> 0]

SInit ==
    /\ sel_pc = "call"
    /\ analysis \in Analyses
    /\ sel_mode = "Auto"

SIdle ==
    /\ sel_pc = "idle"
    /\ analysis = ZeroAnalysis
    /\ sel_mode = "Auto"

SelectCall ==
    /\ sel_pc = "call"
    /\ sel_mode' = select_optimal_mode(analysis)
    /\ sel_pc' = "done"
    /\ UNCHANGED analysis

---------------------------------------------------------------------------
(* Dithering engines: minify.rs apply_no_dithering,                        *)
(* apply_floyd_steinberg_dithering, apply_ordered_dithering                *)

\* Largest width and height of the images the engines are run on.
DitMaxW == 3
DitMaxH == 2

\* The pixels the enumerated images are made of.  Their channels sit at the
\* ends of the range and next to rounding boundaries (15 rounds down and 16
\* up at step 32; 255 rounds to 252 at step 12), so that quantization errors
\* of both signs and of the largest size occur and accumulate on pixels
\* already at 0 or 255.
DColors == {<<15, 16, 255, 128>>, <<255, 0, 5, 0>>}

Positions(w, h) == (0 .. w - 1) \X (0 .. h - 1)

\* image::RgbaImage::new(width, height): every sample is zero.
NewImage(w, h) == [p \in Positions(w, h) |-> <<0, 0, 0, 0>>]

\* An i16 addition or multiplication: the value kept when it wraps.
WrapI16(v) == ((v + 32768) % 65536) - 32768
InI16(v) == v >= MinI16 /\ v <= MaxI16

\* apply_no_dithering, one pixel: R, G, B quantized, alpha kept.
no_dithering_pixel(pixel, factor) ==
    <<quantize_channel(pixel[1], factor),
      quantize_channel(pixel[2], factor),
      quantize_channel(pixel[3], factor),
      pixel[4]>>

apply_no_dithering(rgba, width, height, factor) ==
    [p \in Positions(width, height) |-> no_dithering_pixel(rgba[p], factor)]

\* The 4x4 threshold matrix of apply_ordered_dithering, rows y, columns x.
BAYER_MATRIX ==
    << <<-8,  0, -6,  2>>,
       << 4, -4,  6, -2>>,
       <<-5,  3, -7,  1>>,
       << 7, -1,  5, -3>> >>

threshold_scaled(x, y, factor) ==
    TruncDiv(BAYER_MATRIX[(y % 4) + 1][(x % 4) + 1] * factor, 32)

\* A plausible slip: the threshold and the quantizer are applied to all four
\* channels.
ordered_pixel_all_channels(pixel, x, y, factor) ==
    <<quantize_channel(pixel[1] + threshold_scaled(x, y, factor), factor),
      quantize_channel(pixel[2] + threshold_scaled(x, y, factor), factor),
      quantize_channel(pixel[3] + threshold_scaled(x, y, factor), factor),
      quantize_channel(pixel[4] + threshold_scaled(x, y, factor), factor)>>

\* apply_ordered_dithering, one pixel.
ordered_pixel(pixel, x, y, factor) ==
    <<quantize_channel(pixel[1] + threshold_scaled(x, y, factor), factor),
      quantize_channel(pixel[2] + threshold_scaled(x, y, factor), factor),
      quantize_channel(pixel[3] + threshold_scaled(x, y, factor), factor),
      pixel[4]>>

apply_ordered_dithering(rgba, width, height, factor) ==
    [p \in Positions(width, height) |->
        ordered_pixel(rgba[p], p[1], p[2], factor)]

\* Floyd-Steinberg.  The k-th pixel visited (k from 0) in serpentine order:
\* even rows left to right, odd rows right to left.
ScanY(k, width) == k \div width
IsForward(y) == y % 2 = 0
ScanX(k, width) ==
    IF IsForward(ScanY(k, width)) THEN k % width ELSE width - 1 - (k % width)

ERROR_REDUCTION == 7
ERROR_DIVISOR == 8

\* The quantized pixel written back for a working-buffer pixel.
fs_new_pixel(old_pixel, factor) ==
    <<quantize_channel(old_pixel[1], factor),
      quantize_channel(old_pixel[2], factor),
      quantize_channel(old_pixel[3], factor),
      Clamp(old_pixel[4], 0, 255)>>

\* The attenuated error of a pixel; its alpha component is the literal 0.
fs_error(old_pixel, new_pixel) ==
    <<TruncDiv(WrapI16((old_pixel[1] - new_pixel[1]) * ERROR_REDUCTION), ERROR_DIVISOR),
      TruncDiv(WrapI16((old_pixel[2] - new_pixel[2]) * ERROR_REDUCTION), ERROR_DIVISOR),
      TruncDiv(WrapI16((old_pixel[3] - new_pixel[3]) * ERROR_REDUCTION), ERROR_DIVISOR),
      0>>

\* A plausible slip: the kernel weight is applied without the division by 16.
fs_share_undivided(e, weight) == WrapI16(e * weight)

\* The part of an error component a neighbour of the given weight receives.
fs_share(e, weight) == TruncDiv(WrapI16(e * weight), 16)

\* A plausible slip: the kernel of the forward scan is used on every row.
fs_kernel_unmirrored(x, y, width, height, is_forward) ==
    {t \in {<<x + 1, y, 7>>, <<x - 1, y + 1, 3>>, <<x, y + 1, 5>>,
            <<x + 1, y + 1, 1>>} :
        t[1] >= 0 /\ t[1] < width /\ t[2] < height}

\* The neighbours of (x, y) that receive error, each with its weight: the
\* kernel of the forward scan and its mirror image for the reverse scan.
fs_kernel(x, y, width, height, is_forward) ==
    IF is_forward
    THEN {t \in {<<x + 1, y, 7>>, <<x - 1, y + 1, 3>>, <<x, y + 1, 5>>,
                 <<x + 1, y + 1, 1>>} :
             t[1] >= 0 /\ t[1] < width /\ t[2] < height}
    ELSE {t \in {<<x - 1, y, 7>>, <<x + 1, y + 1, 3>>, <<x, y + 1, 5>>,
                 <<x - 1, y + 1, 1>>} :
             t[1] >= 0 /\ t[1] < width /\ t[2] < height}

\* The weight with which position p receives error from (x, y), 0 if none.
fs_weight(p, x, y, width, height, is_forward) ==
    LET hit == {t \in fs_kernel(x, y, width, height, is_forward) :
                   t[1] = p[1] /\ t[2] = p[2]}
    IN  IF hit = {} THEN 0 ELSE (CHOOSE t \in hit : TRUE)[3]

\* The channels of the working buffer that error is added to (c in 0..3).
fs_add(pixel, error, weight) ==
    <<WrapI16(pixel[1] + fs_share(error[1], weight)),
      WrapI16(pixel[2] + fs_share(error[2], weight)),
      WrapI16(pixel[3] + fs_share(error[3], weight)),
      pixel[4]>>

\* Whether an i16 operation of the step at (x, y) leaves the i16 range.
fs_overflows(buf, x, y, width, height, factor) ==
    LET old_pixel == buf[<<x, y>>]
        new_pixel == fs_new_pixel(old_pixel, factor)
        error     == fs_error(old_pixel, new_pixel)
    IN  \E c \in 1..3 :
           \/ ~InI16((old_pixel[c] - new_pixel[c]) * ERROR_REDUCTION)
           \/ \E t \in fs_kernel(x, y, width, height, IsForward(y)) :
                 \/ ~InI16(error[c] * t[3])
                 \/ ~InI16(buf[<<t[1], t[2]>>][c] + fs_share(error[c], t[3]))

\* One iteration of the pixel loop at (x, y): the buffer afterwards.
fs_step(buf, x, y, width, height, factor) ==
    LET old_pixel == buf[<<x, y>>]
        new_pixel == fs_new_pixel(old_pixel, factor)
        error     == fs_error(old_pixel, new_pixel)
    IN  [p \in DOMAIN buf |->
            IF p = <<x, y>> THEN new_pixel
            ELSE LET weight == fs_weight(p, x, y, width, height, IsForward(y))
                 IN  IF weight = 0 THEN buf[p] ELSE fs_add(buf[p], error, weight)]

\* The working buffer converted back to an image.
fs_to_image(buf) ==
    [p \in DOMAIN buf |->
        <<Clamp(buf[p][1], 0, 255), Clamp(buf[p][2], 0, 255),
          Clamp(buf[p][3], 0, 255), Clamp(buf[p][4], 0, 255)>>]

Engines == {"None", "Ordered", "FloydSteinberg"}

DInit ==
    /\ d_pc = "start"
    /\ d_mode \in Engines
    /\ d_width \in 1..DitMaxW
    /\ d_height \in 1..DitMaxH
    /\ d_factor \in Factors
    /\ d_rgba \in [Positions(d_width, d_height) -> DColors]
    /\ working_buffer = NewImage(d_width, d_height)
    /\ d_visited = 0
    /\ d_overflow = FALSE
    /\ quantized_img = NewImage(d_width, d_height)

DIdle ==
    /\ d_pc = "idle"
    /\ d_mode = "None"
    /\ d_width = 0
    /\ d_height = 0
    /\ d_factor = 8
    /\ d_rgba = NewImage(0, 0)
    /\ working_buffer = NewImage(0, 0)
    /\ d_visited = 0
    /\ d_overflow = FALSE
    /\ quantized_img = NewImage(0, 0)

NoDithering ==
    /\ d_pc = "start"
    /\ d_mode = "None"
    /\ quantized_img' = apply_no_dithering(d_rgba, d_width, d_height, d_factor)
    /\ d_pc' = "done"
    /\ UNCHANGED <<d_mode, d_width, d_height, d_factor, d_rgba,
                   working_buffer, d_visited, d_overflow>>

OrderedDithering ==
    /\ d_pc = "start"
    /\ d_mode = "Ordered"
    /\ quantized_img' = apply_ordered_dithering(d_rgba, d_width, d_height, d_factor)
    /\ d_pc' = "done"
    /\ UNCHANGED <<d_mode, d_width, d_height, d_factor, d_rgba,
                   working_buffer, d_visited, d_overflow>>

\* The working buffer is filled with the input pixels widened to i16.
FloydSteinbergBegin ==
    /\ d_pc = "start"
    /\ d_mode = "FloydSteinberg"
    /\ working_buffer' = d_rgba
    /\ d_visited' = 0
    /\ d_pc' = "fs"
    /\ UNCHANGED <<d_mode, d_width, d_height, d_factor, d_rgba,
                   d_overflow, quantized_img>>

\* One iteration of the pixel loop, at the next pixel in scan order.
FloydSteinbergPixel ==
    /\ d_pc = "fs"
    /\ d_visited < d_width * d_height
    /\ LET x == ScanX(d_visited, d_width)
           y == ScanY(d_visited, d_width)
       IN  /\ working_buffer' =
                 fs_step(working_buffer, x, y, d_width, d_height, d_factor)
           /\ d_overflow' =
                 (d_overflow \/
                  fs_overflows(working_buffer, x, y, d_width, d_height, d_factor))
    /\ d_visited' = d_visited + 1
    /\ UNCHANGED <<d_pc, d_mode, d_width, d_height, d_factor, d_rgba,
                   quantized_img>>

\* After the last pixel the working buffer becomes the output image.
FloydSteinbergEnd ==
    /\ d_pc = "fs"
    /\ d_visited = d_width * d_height
    /\ quantized_img' = fs_to_image(working_buffer)
    /\ d_pc' = "done"
    /\ UNCHANGED <<d_mode, d_width, d_height, d_factor, d_rgba,
                   working_buffer, d_visited, d_overflow>>

---------------------------------------------------------------------------
(* Claims about the dithering engines (checked under SpecDither) *)

\* The pixels Floyd-Steinberg has not visited yet; the first in scan order
\* is the one about to be quantized.
Unvisited ==
    {<<ScanX(k, d_width), ScanY(k, d_width)>> :
        k \in d_visited .. (d_width * d_height - 1)}

\* C5: for the None, Ordered and Floyd-Steinberg engines the alpha of every
\* output pixel equals the alpha of the input pixel at the same position,
\* and during Floyd-Steinberg the alpha component of the working buffer
\* never receives diffused error.
C5_AlphaUnchanged ==
    /\ d_pc = "done" =>
          \A p \in Positions(d_width, d_height) : quantized_img[p][4] = d_rgba[p][4]
    /\ d_pc = "fs" =>
          \A p \in Positions(d_width, d_height) : working_buffer[p][4] = d_rgba[p][4]

\* C5 witness: Floyd-Steinberg finished an image of several pixels with an
\* alpha that is neither 0 nor 255, and changed the colour of a pixel.
C5_Witness ==
    /\ d_pc = "done"
    /\ d_mode = "FloydSteinberg"
    /\ d_width > 1 /\ d_height > 1
    /\ \E p \in Positions(d_width, d_height) :
          /\ d_rgba[p][4] = 128
          /\ quantized_img[p][1] # d_rgba[p][1]

\* C6: in Floyd-Steinberg, for every step, the R, G, B values of every
\* pixel still to be quantized stay within -255..510 and no operation on
\* the 16-bit working buffer overflows.
C6_ErrorBounded ==
    d_pc = "fs" =>
        /\ ~d_overflow
        /\ \A p \in Unvisited : \A c \in 1..3 :
              working_buffer[p][c] >= -255 /\ working_buffer[p][c] <= 510

\* C6 witness: accumulated error has pushed the pixel about to be quantized
\* outside 0..255 on the second row of an image.
C6_Witness ==
    /\ d_pc = "fs"
    /\ d_visited < d_width * d_height
    /\ ScanY(d_visited, d_width) > 0
    /\ \E c \in 1..3 :
          LET v == working_buffer[<<ScanX(d_visited, d_width),
                                    ScanY(d_visited, d_width)>>][c]
          IN  v > 255 \/ v < 0

\* The pixels Floyd-Steinberg has visited, and the weight (in sixteenths)
\* with which a position receives error from the pixel at (x, y) when the
\* travel on row y goes in direction dir (1 rightwards, -1 leftwards):
\* 7 ahead, 5 below, 3 below and behind, 1 below and ahead.
Visited == Positions(d_width, d_height) \ Unvisited

Sixteenths(p, x, y, dir) ==
    IF p = <<x + dir, y>> THEN 7
    ELSE IF p = <<x, y + 1>> THEN 5
    ELSE IF p = <<x - dir, y + 1>> THEN 3
    ELSE IF p = <<x + dir, y + 1>> THEN 1
    ELSE 0

Attenuated(old, new) == TruncDiv((old - new) * 7, 8)

---------------------------------------------------------------------------
(* Median-cut palette builder: median.rs *)

\* Largest width and height of the images quantized, and largest palette
\* size requested.
MedMaxW == 9
MedMaxH == 2
MedMaxColors == 4

\* The colours the enumerated images are made of: two that differ in alpha
\* alone, colours that agree on one or two channels (ties of the sort key),
\* a pair whose red and green ranges are equal, and alphas other than 255.
MColors == {<<0, 0, 0, 255>>, <<0, 0, 0, 0>>, <<0, 60, 0, 255>>,
            <<100, 0, 200, 128>>, <<100, 100, 0, 7>>}

\* Every 4th pixel of every 4th row is sampled.
sample_step == 4

SampleGrid(w, h) ==
    {p \in Positions(w, h) : p[1] % sample_step = 0 /\ p[2] % sample_step = 0}

\* The images enumerated: any colours on the sample grid, and one colour
\* for all the pixels off the grid.
MedImages(w, h) ==
    {[p \in Positions(w, h) |-> IF p \in SampleGrid(w, h) THEN g[p] ELSE f] :
        g \in [SampleGrid(w, h) -> MColors], f \in MColors}

\* color_counts: how many sampled pixels have the colour.
color_count(rgba, w, h, color) ==
    Cardinality({p \in SampleGrid(w, h) : rgba[p] = color})

sampled_colors(rgba, w, h) == {rgba[p] : p \in SampleGrid(w, h)}

\* The orders in which iterating a HashMap can yield a set of keys.
IterationOrders(S) ==
    {s \in [1 .. Cardinality(S) -> S] :
        \A i, j \in 1 .. Cardinality(S) : i # j => s[i] # s[j]}

\* initial_colors for one iteration order of color_counts.
initial_colors(rgba, w, h, order) ==
    [i \in 1 .. Len(order) |-> <<order[i], color_count(rgba, w, h, order[i])>>]

SetMin(S) == CHOOSE v \in S : \A u \in S : v <= u
SetMax(S) == CHOOSE v \in S : \A u \in S : v >= u

\* The values of channel ch (1 red, 2 green, 3 blue) over a colour list.
ChannelValues(colors, ch) == {colors[i][1][ch] : i \in 1 .. Len(colors)}

\* ColorBox::new: the bounds are folded from 255 (min) and 0 (max).
ColorBox_new(colors) ==
    [colors |-> colors,
     min_r |-> SetMin({255} \cup ChannelValues(colors, 1)),
     max_r |-> SetMax({0} \cup ChannelValues(colors, 1)),
     min_g |-> SetMin({255} \cup ChannelValues(colors, 2)),
     max_g |-> SetMax({0} \cup ChannelValues(colors, 2)),
     min_b |-> SetMin({255} \cup ChannelValues(colors, 3)),
     max_b |-> SetMax({0} \cup ChannelValues(colors, 3))]

get_ranges(box) ==
    <<box.max_r - box.min_r, box.max_g - box.min_g, box.max_b - box.min_b>>

\* The widest channel: 1 red, 2 green, 3 blue (0, 1, 2 in the source).
find_widest_channel(box) ==
    LET r == get_ranges(box)
    IN  IF r[1] >= r[2] /\ r[1] >= r[3] THEN 1
        ELSE IF r[2] >= r[3] THEN 2
        ELSE 3

\* sort_by_key is a stable sort: an entry goes after the entries whose key
\* is not greater.
InsertByKey(sorted, entry, ch) ==
    LET n == Cardinality({i \in 1 .. Len(sorted) : sorted[i][1][ch] <= entry[1][ch]})
    IN  SubSeq(sorted, 1, n) \o <<entry>> \o SubSeq(sorted, n + 1, Len(sorted))

RECURSIVE SortPrefix(_, _, _)
SortPrefix(colors, ch, n) ==
    IF n = 0 THEN <<>>
    ELSE InsertByKey(SortPrefix(colors, ch, n - 1), colors[n], ch)

sort_by_key(colors, ch) == SortPrefix(colors, ch, Len(colors))

\* A plausible slip: the length test of split is off by one.
can_split_nonempty(box) == Len(box.colors) >= 1

\* ColorBox::split returns None for a box of fewer than 2 colours.
can_split(box) == Len(box.colors) >= 2

\* A split whose midpoint is rounded up: not the midpoint of the code.
split_kept_ceil(box) ==
    LET sorted == sort_by_key(box.colors, find_widest_channel(box))
        mid    == (Len(sorted) + 1) \div 2
    IN  ColorBox_new(SubSeq(sorted, 1, mid))

\* A split whose second half starts at the midpoint entry itself: not the
\* split_off of the code.
split_returned_from_mid(box) ==
    LET sorted == sort_by_key(box.colors, find_widest_channel(box))
        mid    == Len(sorted) \div 2
    IN  ColorBox_new(SubSeq(sorted, mid, Len(sorted)))

\* The box after split keeps the entries below the midpoint of the list
\* sorted along the widest channel; the returned box gets the rest.
split_kept(box) ==
    LET sorted == sort_by_key(box.colors, find_widest_channel(box))
        mid    == Len(sorted) \div 2
    IN  ColorBox_new(SubSeq(sorted, 1, mid))

split_returned(box) ==
    LET sorted == sort_by_key(box.colors, find_widest_channel(box))
        mid    == Len(sorted) \div 2
    IN  ColorBox_new(SubSeq(sorted, mid + 1, Len(sorted)))

range_sum(box) == get_ranges(box)[1] + get_ranges(box)[2] + get_ranges(box)[3]

\* The search for the box with the largest range: the index moves only on a
\* strictly larger range, from index 1 (0 in the source) and range 0.
RECURSIVE LargestFrom(_, _, _, _)
LargestFrom(bs, i, largest_idx, largest_range) ==
    IF i > Len(bs) THEN largest_idx
    ELSE IF range_sum(bs[i]) > largest_range
         THEN LargestFrom(bs, i + 1, i, range_sum(bs[i]))
         ELSE LargestFrom(bs, i + 1, largest_idx, largest_range)

largest_idx(bs) == LargestFrom(bs, 1, 1, 0)

RECURSIVE WeightedSum(_, _, _)
WeightedSum(colors, ch, n) ==
    IF n = 0 THEN 0
    ELSE WeightedSum(colors, ch, n - 1) + colors[n][1][ch] * colors[n][2]

RECURSIVE TotalCount(_, _)
TotalCount(colors, n) ==
    IF n = 0 THEN 0 ELSE TotalCount(colors, n - 1) + colors[n][2]

\* A plausible slip: the average inherits the alpha of the box's first colour.
get_average_color_first_alpha(box) ==
    LET n     == Len(box.colors)
        total == TotalCount(box.colors, n)
    IN  IF n = 0 \/ total = 0 THEN <<0, 0, 0, 255>>
        ELSE <<WeightedSum(box.colors, 1, n) \div total,
               WeightedSum(box.colors, 2, n) \div total,
               WeightedSum(box.colors, 3, n) \div total,
               box.colors[1][1][4]>>

\* The frequency-weighted average colour of a box, with alpha 255.
get_average_color(box) ==
    LET n     == Len(box.colors)
        total == TotalCount(box.colors, n)
    IN  IF n = 0 \/ total = 0 THEN <<0, 0, 0, 255>>
        ELSE <<WeightedSum(box.colors, 1, n) \div total,
               WeightedSum(box.colors, 2, n) \div total,
               WeightedSum(box.colors, 3, n) \div total,
               255>>

\* Squared Euclidean distance over R, G, B.
color_distance(c1, c2) ==
    (c1[1] - c2[1]) * (c1[1] - c2[1]) + (c1[2] - c2[2]) * (c1[2] - c2[2])
        + (c1[3] - c2[3]) * (c1[3] - c2[3])

\* best_distance starts at u64::MAX, above every distance (at most
\* 3 * 255 * 255); held as the largest 32-bit integer.
U64_MAX == 2147483647

\* A plausible slip: the comparison of the search is inverted, so that a
\* larger distance replaces the best.
RECURSIVE ClosestFromInverted(_, _, _, _, _)
ClosestFromInverted(color, pal, i, best_color, best_distance) ==
    IF i > Len(pal) THEN best_color
    ELSE IF color_distance(color, pal[i]) > best_distance
         THEN ClosestFromInverted(color, pal, i + 1, pal[i],
                              color_distance(color, pal[i]))
         ELSE ClosestFromInverted(color, pal, i + 1, best_color, best_distance)

find_closest_palette_color_inverted(color, pal) ==
    ClosestFromInverted(color, pal, 1, pal[1], 0 - 1)

\* The palette loop: a strictly smaller distance replaces the best, and a
\* distance of 0 ends the loop.
RECURSIVE ClosestFrom(_, _, _, _, _)
ClosestFrom(color, pal, i, best_color, best_distance) ==
    IF i > Len(pal) THEN best_color
    ELSE IF color_distance(color, pal[i]) < best_distance
         THEN IF color_distance(color, pal[i]) = 0
              THEN pal[i]
              ELSE ClosestFrom(color, pal, i + 1, pal[i],
                               color_distance(color, pal[i]))
         ELSE ClosestFrom(color, pal, i + 1, best_color, best_distance)

find_closest_palette_color(color, pal) ==
    ClosestFrom(color, pal, 1, pal[1], U64_MAX)

\* One row task: x from 0 to width - 1, with the row's own cache.
\* A row task whose cache is keyed by the red byte alone (a key that leaves
\* out channels): a different cache from the one the code keeps.
RECURSIVE MapRowFrom_red_key(_, _, _, _, _, _, _)
MapRowFrom_red_key(rgba, pal, width, y, x, color_cache, row_pixels) ==
    IF x >= width THEN row_pixels
    ELSE LET original_color == rgba[<<x, y>>]
             cached == original_color[1] \in DOMAIN color_cache
             quantized_color ==
                 IF cached THEN color_cache[original_color[1]]
                 ELSE find_closest_palette_color(original_color, pal)
             cache_after ==
                 IF cached THEN color_cache
                 ELSE [c \in DOMAIN color_cache \cup {original_color[1]} |->
                          IF c = original_color[1] THEN quantized_color
                          ELSE color_cache[c]]
         IN  MapRowFrom_red_key(rgba, pal, width, y, x + 1, cache_after,
                                Append(row_pixels, quantized_color))

map_row_red_key(rgba, pal, width, y) ==
    MapRowFrom_red_key(rgba, pal, width, y, 0, [c \in {} |-> c], <<>>)

RECURSIVE MapRowFrom(_, _, _, _, _, _, _)
MapRowFrom(rgba, pal, width, y, x, color_cache, row_pixels) ==
    IF x >= width THEN row_pixels
    ELSE LET original_color == rgba[<<x, y>>]
             cached == original_color \in DOMAIN color_cache
             quantized_color ==
                 IF cached THEN color_cache[original_color]
                 ELSE find_closest_palette_color(original_color, pal)
             cache_after ==
                 IF cached THEN color_cache
                 ELSE [c \in DOMAIN color_cache \cup {original_color} |->
                          IF c = original_color THEN quantized_color
                          ELSE color_cache[c]]
         IN  MapRowFrom(rgba, pal, width, y, x + 1, cache_after,
                        Append(row_pixels, quantized_color))

map_row(rgba, pal, width, y) ==
    MapRowFrom(rgba, pal, width, y, 0, [c \in {} |-> c], <<>>)

MInit ==
    /\ m_pc = "start"
    /\ m_width \in 1..MedMaxW
    /\ m_height \in 1..MedMaxH
    /\ m_rgba \in MedImages(m_width, m_height)
    /\ max_colors \in 1..MedMaxColors
    /\ boxes = <<>>
    /\ palette = <<>>
    /\ m_rows = [y \in 0 .. m_height - 1 |-> <<>>]
    /\ m_rows_done = {}
    /\ m_quantized = NewImage(m_width, m_height)

MIdle ==
    /\ m_pc = "idle"
    /\ m_width = 0
    /\ m_height = 0
    /\ m_rgba = NewImage(0, 0)
    /\ max_colors = 1
    /\ boxes = <<>>
    /\ palette = <<>>
    /\ m_rows = [y \in {} |-> <<>>]
    /\ m_rows_done = {}
    /\ m_quantized = NewImage(0, 0)

\* The sampled colours are counted and seed the first box, in the order the
\* hash map yields them.
MedianSample ==
    /\ m_pc = "start"
    /\ \E order \in IterationOrders(sampled_colors(m_rgba, m_width, m_height)) :
          boxes' = <<ColorBox_new(initial_colors(m_rgba, m_width, m_height, order))>>
    /\ m_pc' = "split"
    /\ UNCHANGED <<m_width, m_height, m_rgba, max_colors, palette,
                   m_rows, m_rows_done, m_quantized>>

\* One iteration of the splitting loop that splits the largest box.
MedianSplit ==
    /\ m_pc = "split"
    /\ Len(boxes) < max_colors
    /\ can_split(boxes[largest_idx(boxes)])
    /\ boxes' = Append([boxes EXCEPT ![largest_idx(boxes)] = split_kept(@)],
                       split_returned(boxes[largest_idx(boxes)]))
    /\ UNCHANGED <<m_pc, m_width, m_height, m_rgba, max_colors, palette,
                   m_rows, m_rows_done, m_quantized>>

\* The loop ends (enough boxes, or the largest box cannot be split) and the
\* palette is extracted from the boxes.
MedianPalette ==
    /\ m_pc = "split"
    /\ \/ Len(boxes) >= max_colors
       \/ ~can_split(boxes[largest_idx(boxes)])
    /\ palette' = [i \in 1 .. Len(boxes) |-> get_average_color(boxes[i])]
    /\ m_pc' = "map"
    /\ UNCHANGED <<m_width, m_height, m_rgba, max_colors, boxes,
                   m_rows, m_rows_done, m_quantized>>

\* One row task of the parallel map; the tasks run in any order.
MedianRow ==
    /\ m_pc = "map"
    /\ \E y \in (0 .. m_height - 1) \ m_rows_done :
          /\ m_rows' = [m_rows EXCEPT ![y] = map_row(m_rgba, palette, m_width, y)]
          /\ m_rows_done' = m_rows_done \cup {y}
    /\ UNCHANGED <<m_pc, m_width, m_height, m_rgba, max_colors, boxes, palette,
                   m_quantized>>

\* All rows collected: they are written to the output image in row order.
MedianWrite ==
    /\ m_pc = "map"
    /\ m_rows_done = 0 .. m_height - 1
    /\ m_quantized' = [p \in Positions(m_width, m_height) |-> m_rows[p[2]][p[1] + 1]]
    /\ m_pc' = "done"
    /\ UNCHANGED <<m_width, m_height, m_rgba, max_colors, boxes, palette,
                   m_rows, m_rows_done>>

---------------------------------------------------------------------------
(* Claims about the median-cut builder (checked under SpecMedian) *)

RGB(c) == <<c[1], c[2], c[3]>>

PaletteColors == {palette[i] : i \in 1 .. Len(palette)}

\* C2: every pixel of the returned image, sampled or not, is a palette
\* entry, and no palette entry is nearer to the input pixel in squared
\* Euclidean RGB distance.
C2_NearestPaletteColor ==
    m_pc = "done" =>
        \A p \in Positions(m_width, m_height) :
            \E e \in PaletteColors :
                /\ RGB(m_quantized[p]) = RGB(e)
                /\ \A f \in PaletteColors :
                      color_distance(m_rgba[p], e) <= color_distance(m_rgba[p], f)

\* C2 witness: with a palette of several entries, a pixel that was not
\* sampled was mapped to a palette colour other than its own.
C2_Witness ==
    /\ m_pc = "done"
    /\ Len(palette) >= 2
    /\ \E p \in Positions(m_width, m_height) \ SampleGrid(m_width, m_height) :
          /\ RGB(m_quantized[p]) # RGB(m_rgba[p])
          /\ \E f \in PaletteColors :
                color_distance(m_rgba[p], f) > color_distance(m_rgba[p], m_quantized[p])

\* The number of distinct sampled colours (a Color is its four bytes).
DistinctSampled == Cardinality(sampled_colors(m_rgba, m_width, m_height))

\* C3: the splitting loop terminates (every iteration that stays in the
\* loop adds one box, and the boxes never exceed the requested size), and
\* the palette has at least 1 and at most max_colors entries and never more
\* than there are distinct sampled colours.
C3_PaletteSize ==
    /\ [](/\ m_pc = "split" =>
                /\ Len(boxes) >= 1
                /\ Len(boxes) <= max_colors
                /\ Len(boxes) <= DistinctSampled
          /\ m_pc \in {"map", "done"} =>
                /\ Len(palette) >= 1
                /\ Len(palette) <= max_colors
                /\ Len(palette) <= DistinctSampled)
    /\ [][(m_pc = "split" /\ m_pc' = "split") => Len(boxes') = Len(boxes) + 1]_vars

\* C3 witness: 3 distinct sampled colours and a larger requested size gave a
\* palette of 3 entries.
C3_Witness ==
    /\ m_pc = "map"
    /\ DistinctSampled = 3
    /\ max_colors > 3
    /\ Len(palette) = 3

\* C4: every pixel of the median-cut output has alpha 255, whatever the
\* alpha of the input pixel, and so has every palette entry.
C4_AlphaForced ==
    /\ m_pc \in {"map", "done"} => \A e \in PaletteColors : e[4] = 255
    /\ m_pc = "done" =>
          \A p \in Positions(m_width, m_height) : m_quantized[p][4] = 255

\* C4 witness: an input pixel of alpha 0 and one of alpha 128 came out with
\* alpha 255.
C4_Witness ==
    /\ m_pc = "done"
    /\ \E p, q \in Positions(m_width, m_height) :
          /\ m_rgba[p][4] = 0
          /\ m_rgba[q][4] = 128
          /\ m_quantized[p][4] = 255
          /\ m_quantized[q][4] = 255

\* The row a task produces when every pixel is searched in the palette
\* afresh, without a cache.
fresh_row(y) ==
    [i \in 1 .. m_width |->
        find_closest_palette_color(m_rgba[<<i - 1, y>>], palette)]

\* C17: for a fixed input image and palette the median-cut output does not
\* depend on the order in which the per-row tasks run and complete: at any
\* moment every completed row holds what a fresh palette search gives for
\* each of its pixels and every other row is untouched, a row task changes
\* its own row only and leaves the input and the palette unchanged, and the
\* image written at the end is the fresh search of every pixel.
C17_RowOrderIndependent ==
    /\ [](/\ m_pc \in {"map", "done"} =>
                \A y \in 0 .. m_height - 1 :
                    m_rows[y] = IF y \in m_rows_done THEN fresh_row(y) ELSE <<>>
          /\ m_pc = "done" =>
                \A p \in Positions(m_width, m_height) :
                    m_quantized[p] =
                        find_closest_palette_color(m_rgba[p], palette))
    /\ [][m_pc = "map" =>
             /\ m_rgba' = m_rgba
             /\ palette' = palette
             /\ \A y \in 0 .. m_height - 1 :
                   m_rows'[y] # m_rows[y] =>
                       /\ y \notin m_rows_done
                       /\ m_rows_done' = m_rows_done \cup {y}]_vars

\* C17 witness: the second row completed before the first; the completed
\* row repeats a colour (a cache hit), and the row still to run holds pixels
\* that map to different palette entries.
C17_Witness ==
    /\ m_pc = "map"
    /\ m_height >= 2
    /\ m_rows_done = {1}
    /\ Len(palette) >= 2
    /\ \E x1, x2 \in 0 .. m_width - 1 :
          /\ x1 < x2
          /\ m_rgba[<<x1, 1>>] = m_rgba[<<x2, 1>>]
    /\ \E i, j \in 1 .. m_width : fresh_row(0)[i] # fresh_row(0)[j]

\* The (colour, frequency) entries of a box, and of all boxes.
BoxEntries(box) == {box.colors[i] : i \in 1 .. Len(box.colors)}
AllEntries == UNION {BoxEntries(boxes[i]) : i \in 1 .. Len(boxes)}
EntryFrequencies(entries) == [c \in {e[1] : e \in entries} |->
                                 (CHOOSE e \in entries : e[1] = c)[2]]

RECURSIVE SumFrequencies(_)
SumFrequencies(entries) ==
    IF entries = {} THEN 0
    ELSE LET e == CHOOSE x \in entries : TRUE
         IN  e[2] + SumFrequencies(entries \ {e})

\* C25: after any number of splits starting from a non-empty sampled colour
\* list, every box is non-empty, each box's min/max per channel are exactly
\* the minimum and maximum of its members' channels, no colour belongs to
\* two boxes, and the union of all boxes with their frequencies is the
\* initial sampled (colour, frequency) set, so the total frequency is the
\* number of sampled pixels.
C25_BoxInvariant ==
    m_pc \in {"split", "map", "done"} =>
        /\ \A i \in 1 .. Len(boxes) :
              LET b == boxes[i]
              IN  /\ Len(b.colors) >= 1
                  /\ \A e \in BoxEntries(b) :
                        /\ b.min_r <= e[1][1] /\ e[1][1] <= b.max_r
                        /\ b.min_g <= e[1][2] /\ e[1][2] <= b.max_g
                        /\ b.min_b <= e[1][3] /\ e[1][3] <= b.max_b
                  /\ \E e \in BoxEntries(b) : e[1][1] = b.min_r
                  /\ \E e \in BoxEntries(b) : e[1][1] = b.max_r
                  /\ \E e \in BoxEntries(b) : e[1][2] = b.min_g
                  /\ \E e \in BoxEntries(b) : e[1][2] = b.max_g
                  /\ \E e \in BoxEntries(b) : e[1][3] = b.min_b
                  /\ \E e \in BoxEntries(b) : e[1][3] = b.max_b
                  /\ \A k, l \in 1 .. Len(b.colors) :
                        k # l => b.colors[k][1] # b.colors[l][1]
        /\ \A i, j \in 1 .. Len(boxes) :
              i # j => \A e \in BoxEntries(boxes[i]), f \in BoxEntries(boxes[j]) :
                           e[1] # f[1]
        /\ AllEntries = {<<c, color_count(m_rgba, m_width, m_height, c)>> :
                            c \in sampled_colors(m_rgba, m_width, m_height)}
        /\ SumFrequencies(AllEntries)
               = Cardinality(SampleGrid(m_width, m_height))

\* C25 witness: two splits have made three boxes out of three sampled
\* colours, two of which differ in alpha only.
C25_Witness ==
    /\ m_pc = "split"
    /\ Len(boxes) = 3
    /\ \E i, j \in 1 .. 3 :
          /\ i # j
          /\ RGB(boxes[i].colors[1][1]) = RGB(boxes[j].colors[1][1])

\* The lowest index among the boxes with the largest range sum, and the
\* first of red, green, blue among a box's channels of largest range.
LargestBox ==
    CHOOSE i \in 1 .. Len(boxes) :
        /\ \A j \in 1 .. Len(boxes) : range_sum(boxes[j]) <= range_sum(boxes[i])
        /\ \A j \in 1 .. i - 1 : range_sum(boxes[j]) < range_sum(boxes[i])

WidestChannel(box) ==
    CHOOSE ch \in 1 .. 3 :
        /\ \A c \in 1 .. 3 : get_ranges(box)[c] <= get_ranges(box)[ch]
        /\ \A c \in 1 .. ch - 1 : get_ranges(box)[c] < get_ranges(box)[ch]

RECURSIVE split_loop(_, _)
split_loop(bs, max) ==
    IF Len(bs) < max /\ can_split(bs[largest_idx(bs)])
    THEN split_loop(Append([bs EXCEPT ![largest_idx(bs)] = split_kept(@)],
                           split_returned(bs[largest_idx(bs)])), max)
    ELSE bs

median_palette(rgba, w, h, max, order) ==
    LET bs == split_loop(<<ColorBox_new(initial_colors(rgba, w, h, order))>>, max)
    IN  [i \in 1 .. Len(bs) |-> get_average_color(bs[i])]

\* C29: quantize_image_with_median is deterministic in its inputs: for a
\* fixed image and max_colors the palette (entries and order) and the
\* output image are the same for every order in which the hash map of
\* colour frequencies is iterated.
C29_OrderIndependent ==
    /\ (m_pc = "map" /\ m_rows_done = {}) =>
          \A order \in IterationOrders(sampled_colors(m_rgba, m_width, m_height)) :
              median_palette(m_rgba, m_width, m_height, max_colors, order) = palette
    /\ m_pc = "done" =>
          \A order \in IterationOrders(sampled_colors(m_rgba, m_width, m_height)) :
              \A p \in Positions(m_width, m_height) :
                  m_quantized[p] = find_closest_palette_color(m_rgba[p],
                      median_palette(m_rgba, m_width, m_height, max_colors, order))

---------------------------------------------------------------------------
(* Claims about the channel quantizer (checked under SpecQuantize) *)

\* C1 as stated: for every i16 value and every step in {8, 12, 16, 32},
\* quantize_channel returns a value in [0,255] that is a multiple of the
\* step (0 is a multiple of every step).
C1_MultipleOfStep ==
    qc_pc = "done" =>
        /\ qc_result \in 0..255
        /\ qc_result % qc_factor = 0

\* C1 amended: the result lies in [0,255] and is a multiple of the step,
\* except that an input whose rounding reaches 256 is returned as 255.
C1_MultipleOfStepOr255 ==
    qc_pc = "done" =>
        /\ qc_result \in 0..255
        /\ \/ qc_result % qc_factor = 0
           \/ /\ qc_result = 255
              /\ TruncDiv(Clamp(qc_value, 0, 255) + qc_factor \div 2, qc_factor)
                     * qc_factor = 256

\* C1 witness: an out-of-range dithered value above 255 was quantized to
\* 255, which is no multiple of its step.
C1_Witness ==
    /\ qc_pc = "done"
    /\ qc_value > 255
    /\ qc_result = 255
    /\ qc_result % qc_factor # 0

---------------------------------------------------------------------------
(* Claims about the mode selector (checked under SpecSelect) *)

\* The rules as the specification words them (section 4.2), in hundredths.
StatedRule1 ==
    /\ analysis.gradient_smoothness < 5
    /\ analysis.edge_density < 15
    /\ analysis.local_variance < 200
StatedRule2 ==
    /\ analysis.color_diversity < 100
    /\ analysis.edge_density < 15
StatedRule3 ==
    /\ analysis.color_diversity > 100
    /\ analysis.color_diversity < 500
    /\ analysis.edge_density > 15
    /\ analysis.edge_density < 35
    /\ analysis.detail_frequency < 25
StatedRule4 ==
    /\ analysis.detail_frequency > 25
    /\ analysis.edge_density > 35
    /\ analysis.color_diversity > 300
StatedRule5 ==
    /\ analysis.edge_density > 40
    /\ analysis.local_variance > 600
    /\ analysis.color_diversity > 500

\* C7: select_optimal_mode returns one of None, Ordered, FloydSteinberg,
\* MedianCut (never Auto) for every combination of the metrics, and when
\* none of rules 1-5 matches it returns Ordered.
C7_TotalAndFallback ==
    sel_pc = "done" =>
        /\ sel_mode \in {"None", "Ordered", "FloydSteinberg", "MedianCut"}
        /\ (~StatedRule1 /\ ~StatedRule2 /\ ~StatedRule3 /\ ~StatedRule4
                /\ ~StatedRule5) => sel_mode = "Ordered"

\* C7 witness: no rule of 1-6 matched and the default returned Ordered.
C7_Witness ==
    /\ sel_pc = "done"
    /\ ~StatedRule1 /\ ~StatedRule2 /\ ~StatedRule3 /\ ~StatedRule4
    /\ ~StatedRule5
    /\ ~(analysis.gradient_smoothness < 10 /\ analysis.edge_density < 30)
    /\ sel_mode = "Ordered"

\* C8 as stated: when rules 1 and 2 do not match, color_diversity is
\* between 100 and 500, edge_density between 0.15 and 0.35 and
\* detail_frequency below 0.25, the result is MedianCut.
C8_MedianCutFrom100 ==
    (sel_pc = "done" /\ ~StatedRule1 /\ ~StatedRule2 /\ StatedRule3)
        => sel_mode = "MedianCut"

\* C8 amended: the same with color_diversity strictly between 300 and 500
\* (and edge_density strictly between 0.15 and 0.35).
C8_MedianCutFrom300 ==
    (/\ sel_pc = "done"
     /\ ~StatedRule1 /\ ~StatedRule2
     /\ analysis.color_diversity > 300
     /\ analysis.color_diversity < 500
     /\ analysis.edge_density > 15
     /\ analysis.edge_density < 35
     /\ analysis.detail_frequency < 25)
        => sel_mode = "MedianCut"

\* C8 witness: MedianCut was returned for a diversity just above 300.
C8_Witness ==
    /\ sel_pc = "done"
    /\ analysis.color_diversity = 301
    /\ analysis.edge_density = 16
    /\ analysis.detail_frequency = 24
    /\ sel_mode = "MedianCut"

\* C9: the result is None exactly when rule 1 or rule 2 matches, with
\* strict comparisons: at edge_density exactly 0.15 it is never None.
C9_NoneExactly ==
    sel_pc = "done" =>
        /\ (sel_mode = "None") <=> (StatedRule1 \/ StatedRule2)
        /\ analysis.edge_density = 15 => sel_mode # "None"

\* C9 witness: None was returned by rule 2 alone, for an edge density just
\* below 0.15.
C9_Witness ==
    /\ sel_pc = "done"
    /\ sel_mode = "None"
    /\ ~StatedRule1
    /\ analysis.edge_density = 14

\* C10: the result is FloydSteinberg exactly when rule 4 or rule 5 matches;
\* no earlier rule pre-empts either.
C10_FloydExactly ==
    sel_pc = "done" =>
        ((sel_mode = "FloydSteinberg") <=> (StatedRule4 \/ StatedRule5))

\* C10 witness: FloydSteinberg was returned by rule 5 alone.
C10_Witness ==
    /\ sel_pc = "done"
    /\ sel_mode = "FloydSteinberg"
    /\ ~StatedRule4
    /\ StatedRule5

---------------------------------------------------------------------------
(* Image analyzer: dithering.rs analyze_image and the five metrics *)

\* The f64 metrics are computed here as exact rationals.  The selector only
\* compares a metric with its thresholds, so the analyzer's result holds
\* each metric as an integer on the selector's scale that compares with
\* every threshold exactly as the rational does: num * scale / den rounded
\* down, except that a value strictly between a threshold and the next
\* integer is rounded up.
on_scale(num, den, scale, thresholds) ==
    LET q == (num * scale) \div den
        exact == (num * scale) % den = 0
    IN  IF ~exact /\ q \in thresholds THEN q + 1 ELSE q

GradientThresholds == {SMOOTH_GRADIENT_THRESHOLD, SMOOTH_GRADIENT_THRESHOLD * 2}
EdgeThresholds ==
    {LOW_EDGE_THRESHOLD, ORDERED_EDGE, PHOTO_EDGE_THRESHOLD, VERY_HIGH_EDGE}
VarianceThresholds == {LOW_VARIANCE_THRESHOLD, HIGH_VARIANCE}
DetailThresholds == {HIGH_DETAIL_FREQUENCY}

\* (lo..end).step_by(step)
StepBy(lo, end, step) == {v \in lo .. end - 1 : (v - lo) % step = 0}

\* The sum of s[lo..hi].
RECURSIVE SumSeq(_, _, _)
SumSeq(s, lo, hi) ==
    IF lo > hi THEN 0
    ELSE IF lo = hi THEN s[lo]
    ELSE LET mid == (lo + hi) \div 2
         IN  SumSeq(s, lo, mid) + SumSeq(s, mid + 1, hi)

\* The sum of the values of a function on positions, column by column.
SumOf(f) ==
    LET xs == {p[1] : p \in DOMAIN f}
        ys == {p[2] : p \in DOMAIN f}
        column(x) == [y \in SetMin(ys) .. SetMax(ys) |->
                         IF <<x, y>> \in DOMAIN f THEN f[<<x, y>>] ELSE 0]
    IN  IF DOMAIN f = {} THEN 0
        ELSE SumSeq([x \in SetMin(xs) .. SetMax(xs) |->
                        SumSeq(column(x), SetMin(ys), SetMax(ys))],
                    SetMin(xs), SetMax(xs))

Abs(v) == IF v < 0 THEN -v ELSE v

\* |p2 - p1| summed over the three colour channels.
channel_diff(p1, p2) == Abs(p2[1] - p1[1]) + Abs(p2[2] - p1[2]) + Abs(p2[3] - p1[3])

SAMPLE_STEP == 4

\* calculate_gradient_smoothness: the sampled positions that have a right
\* neighbour, and the mean channel difference to it.
gradient_samples(width, height) ==
    {p \in StepBy(0, width, SAMPLE_STEP) \X StepBy(0, height, SAMPLE_STEP) :
        p[1] + 1 < width}

calculate_gradient_smoothness(rgba, width, height) ==
    LET samples == gradient_samples(width, height)
        total_gradient ==
            SumOf([p \in samples |->
                      channel_diff(rgba[p], rgba[<<p[1] + 1, p[2]>>])])
        count == Cardinality(samples)
    IN  IF count > 0
        THEN on_scale(total_gradient, count, 1, GradientThresholds)
        ELSE 0

\* The sampling loops of calculate_edge_density (margin 1) and
\* calculate_detail_frequency (margin 2):
\*     for y in (margin..height-margin).step_by(4)
\*         for x in (margin..width-margin).step_by(4)
\* height-margin and width-margin are u32 subtractions.  With overflow
\* checks (a debug build) a subtraction below zero panics; without them (a
\* release build) it wraps to a value above 2^32 - 3, and the range then
\* runs through margin, margin+4, ... far beyond the image.  Of a wrapped
\* range the model keeps the first element, which already is outside the
\* image.  width-margin is evaluated once per row, so only if there is a
\* row.
loop_rows(height, margin) ==
    IF height < margin THEN {margin}
    ELSE StepBy(margin, height - margin, SAMPLE_STEP)

loop_cols(width, margin) ==
    IF width < margin THEN {margin}
    ELSE StepBy(margin, width - margin, SAMPLE_STEP)

loop_underflows(width, height, margin) ==
    \/ height < margin
    \/ loop_rows(height, margin) # {} /\ width < margin

loop_centres(width, height, margin) ==
    IF loop_rows(height, margin) = {} THEN {}
    ELSE loop_cols(width, margin) \X loop_rows(height, margin)

\* The pixels get_pixel is called on around a sampled centre: the 3x3
\* neighbourhood (Sobel) or the centre and its four neighbours (detail).
sobel_reads(p) == {<<p[1] + dx, p[2] + dy>> : dx \in {-1, 0, 1}, dy \in {-1, 0, 1}}
detail_reads(p) ==
    {p, <<p[1] - 1, p[2]>>, <<p[1] + 1, p[2]>>, <<p[1], p[2] - 1>>, <<p[1], p[2] + 1>>}

\* How a sampling loop ends: with a panic at the subtraction, a panic in
\* get_pixel, or normally.
loop_status(width, height, margin, reads, build) ==
    IF loop_underflows(width, height, margin) /\ build = "debug"
    THEN "panic_subtract_overflow"
    ELSE IF ~(reads \subseteq Positions(width, height))
    THEN "panic_out_of_bounds"
    ELSE "ok"

\* get_brightness, in thousandths.
brightness(p) == 299 * p[1] + 587 * p[2] + 114 * p[3]

\* calculate_pixel_gradient(x, y) > 30.0, on brightness in thousandths:
\* sqrt(gx^2 + gy^2) > 30000.  The squares are formed only when both are
\* at most 30000, so that they fit 32 bits.
EDGE_GRADIENT == 30000

\* A gradient test whose kernels have no negative weights: not the Sobel
\* kernels of the code.
pixel_gradient_is_edge_unsigned(rgba, x, y) ==
    LET b(dx, dy) == brightness(rgba[<<x + dx, y + dy>>])
        gx == b(-1, -1) + 2 * b(-1, 0) + b(-1, 1)
              + b(1, -1) + 2 * b(1, 0) + b(1, 1)
        gy == b(-1, -1) + 2 * b(0, -1) + b(1, -1)
              + b(-1, 1) + 2 * b(0, 1) + b(1, 1)
    IN  \/ Abs(gx) > EDGE_GRADIENT
        \/ Abs(gy) > EDGE_GRADIENT
        \/ gx * gx + gy * gy > EDGE_GRADIENT * EDGE_GRADIENT

pixel_gradient_is_edge(rgba, x, y) ==
    LET b(dx, dy) == brightness(rgba[<<x + dx, y + dy>>])
        gx == - b(-1, -1) - 2 * b(-1, 0) - b(-1, 1)
              + b(1, -1) + 2 * b(1, 0) + b(1, 1)
        gy == - b(-1, -1) - 2 * b(0, -1) - b(1, -1)
              + b(-1, 1) + 2 * b(0, 1) + b(1, 1)
    IN  \/ Abs(gx) > EDGE_GRADIENT
        \/ Abs(gy) > EDGE_GRADIENT
        \/ gx * gx + gy * gy > EDGE_GRADIENT * EDGE_GRADIENT

edge_reads(width, height) ==
    UNION {sobel_reads(p) : p \in loop_centres(width, height, 1)}

calculate_edge_density(rgba, width, height) ==
    LET samples == loop_centres(width, height, 1)
        edge_count ==
            Cardinality({p \in samples : pixel_gradient_is_edge(rgba, p[1], p[2])})
        total_pixels == Cardinality(samples)
    IN  IF total_pixels > 0
        THEN on_scale(edge_count, total_pixels, 100, EdgeThresholds)
        ELSE 0

COLOR_BUCKET == 16

calculate_color_diversity(rgba) ==
    Cardinality({<<rgba[p][1] \div COLOR_BUCKET, rgba[p][2] \div COLOR_BUCKET,
                   rgba[p][3] \div COLOR_BUCKET>> : p \in DOMAIN rgba})

\* calculate_block_variance.  With n values v (brightness in thousandths)
\* of sum S, the variance is Sum((n*v - S)^2) / (n^3 * 10^6).  The sum of
\* squares does not fit 32 bits and is held in two limbs <<hi, lo>>,
\* meaning hi * 10^8 + lo with lo < 10^8.
LIMB == 100000000
HALF_LIMB == 10000
BLOCK == 8

\* d^2 as limbs, for |d| < 10^4 * 10^4.
square_limbs(d) ==
    LET a == Abs(d) \div HALF_LIMB
        b == Abs(d) % HALF_LIMB
        cross == 2 * a * b
        lo == (cross % HALF_LIMB) * HALF_LIMB + b * b
    IN  <<a * a + cross \div HALF_LIMB + lo \div LIMB, lo % LIMB>>

add_limbs(a, b) == <<a[1] + b[1] + (a[2] + b[2]) \div LIMB, (a[2] + b[2]) % LIMB>>

\* The sum of the limbs s[lo..hi].
RECURSIVE SumLimbs(_, _, _)
SumLimbs(s, lo, hi) ==
    IF lo > hi THEN <<0, 0>>
    ELSE IF lo = hi THEN s[lo]
    ELSE LET mid == (lo + hi) \div 2
         IN  add_limbs(SumLimbs(s, lo, mid), SumLimbs(s, mid + 1, hi))

\* The sum of the squares of the values of a function on positions.
sum_square_limbs(f) ==
    LET xs == {p[1] : p \in DOMAIN f}
        ys == {p[2] : p \in DOMAIN f}
        column(x) == [y \in SetMin(ys) .. SetMax(ys) |->
                         IF <<x, y>> \in DOMAIN f THEN square_limbs(f[<<x, y>>])
                         ELSE <<0, 0>>]
    IN  IF DOMAIN f = {} THEN <<0, 0>>
        ELSE SumLimbs([x \in SetMin(xs) .. SetMax(xs) |->
                          SumLimbs(column(x), SetMin(ys), SetMax(ys))],
                      SetMin(xs), SetMax(xs))

block_positions(start_x, start_y, img_width, img_height) ==
    LET end_x == IF start_x + BLOCK < img_width THEN start_x + BLOCK ELSE img_width
        end_y == IF start_y + BLOCK < img_height THEN start_y + BLOCK ELSE img_height
    IN  (start_x .. end_x - 1) \X (start_y .. end_y - 1)

calculate_block_variance(rgba, start_x, start_y, img_width, img_height) ==
    LET values == [p \in block_positions(start_x, start_y, img_width, img_height)
                      |-> brightness(rgba[p])]
        n == Cardinality(DOMAIN values)
        S == SumOf(values)
        squares == sum_square_limbs([p \in DOMAIN values |-> n * values[p] - S])
        n3 == n * n * n
        \* (hi * 10^8 + lo) / (n^3 * 10^6) = (hi * 100 + lo / 10^6) / n^3
        millions == squares[2] \div 1000000
        rest == (squares[1] % n3) * 100 + millions
        floor == (squares[1] \div n3) * 100 + rest \div n3
        exact == rest % n3 = 0 /\ squares[2] % 1000000 = 0
    IN  IF n = 0 THEN 0
        ELSE IF ~exact /\ floor \in VarianceThresholds THEN floor + 1
        ELSE floor

\* calculate_local_variance: the variances of the 8x8 blocks, sorted;
\* the element at index len / 2.
calculate_local_variance(rgba, width, height) ==
    LET blocks == StepBy(0, width, BLOCK) \X StepBy(0, height, BLOCK)
        variance(b) == calculate_block_variance(rgba, b[1], b[2], width, height)
        mid == Cardinality(blocks) \div 2
    IN  IF blocks = {} THEN 0
        ELSE LET median_block ==
                     CHOOSE b \in blocks :
                         /\ Cardinality({c \in blocks : variance(c) < variance(b)}) <= mid
                         /\ Cardinality({c \in blocks : variance(c) <= variance(b)}) > mid
             IN  variance(median_block)

DETAIL_DIFF == 20
DETAIL_CHANGES == 2

detail_loop_reads(width, height) ==
    UNION {detail_reads(p) : p \in loop_centres(width, height, 2)}

calculate_detail_frequency(rgba, width, height) ==
    LET samples == loop_centres(width, height, 2)
        changes(p) ==
            Cardinality({n \in detail_reads(p) \ {p} :
                            channel_diff(rgba[n], rgba[p]) > DETAIL_DIFF})
        high_freq_count ==
            Cardinality({p \in samples : changes(p) >= DETAIL_CHANGES})
        total_samples == Cardinality(samples)
    IN  IF total_samples > 0
        THEN on_scale(high_freq_count, total_samples, 100, DetailThresholds)
        ELSE 0

\* analyze_image with a zero-size test that needs both dimensions to be
\* zero: not the test of the code.
zero_size_both(width, height) == width = 0 /\ height = 0

\* analyze_image's test for a degenerate image.
zero_size(width, height) == width = 0 \/ height = 0

\* analyze_image.  The result records how the call ended (status), whether
\* an unsigned subtraction went below zero (underflow), the metric
\* functions that were entered (calls) and, when it returned, the metrics.
\* The metrics are computed in the order of the code; a panic ends the call.
analyze_image(rgba, width, height, build) ==
    LET edge_status == loop_status(width, height, 1, edge_reads(width, height), build)
        detail_status ==
            loop_status(width, height, 2, detail_loop_reads(width, height), build)
    IN  IF zero_size(width, height)
        THEN [status |-> "ok", underflow |-> FALSE, calls |-> <<>>,
              analysis |-> ZeroAnalysis]
        ELSE IF edge_status # "ok"
        THEN [status |-> edge_status, underflow |-> TRUE,
              calls |-> <<"calculate_gradient_smoothness", "calculate_edge_density">>,
              analysis |-> ZeroAnalysis]
        ELSE IF detail_status # "ok"
        THEN [status |-> detail_status, underflow |-> TRUE,
              calls |-> <<"calculate_gradient_smoothness", "calculate_edge_density",
                          "calculate_color_diversity", "calculate_local_variance",
                          "calculate_detail_frequency">>,
              analysis |-> ZeroAnalysis]
        ELSE [status |-> "ok",
              underflow |-> \/ loop_underflows(width, height, 1)
                            \/ loop_underflows(width, height, 2),
              calls |-> <<"calculate_gradient_smoothness", "calculate_edge_density",
                          "calculate_color_diversity", "calculate_local_variance",
                          "calculate_detail_frequency">>,
              analysis |->
                  [gradient_smoothness |->
                       calculate_gradient_smoothness(rgba, width, height),
                   edge_density |-> calculate_edge_density(rgba, width, height),
                   color_diversity |-> calculate_color_diversity(rgba),
                   local_variance |-> calculate_local_variance(rgba, width, height),
                   detail_frequency |->
                       calculate_detail_frequency(rgba, width, height)]]

\* recommend_dithering_mode: the selector applied to the analysis; a panic
\* in the analyzer ends the call without a mode.
recommend_dithering_mode(rgba, width, height, build) ==
    LET result == analyze_image(rgba, width, height, build)
    IN  IF result.status = "ok" THEN select_optimal_mode(result.analysis)
        ELSE "panic"

\* The images the analyzer is run on: two colours laid out as a solid area,
\* a checkerboard, stripes, or a left and a right half.
AnMaxW == 9
AnMaxH == 6
AnColors == {<<0, 0, 0, 255>>, <<255, 255, 255, 255>>, <<100, 100, 100, 255>>,
             <<110, 104, 100, 0>>}
Layouts == {"solid", "checker", "columns", "rows", "halves"}

second_colour(layout, x, y, width) ==
    CASE layout = "solid" -> FALSE
      [] layout = "checker" -> (x + y) % 2 = 1
      [] layout = "columns" -> x % 2 = 1
      [] layout = "rows" -> y % 2 = 1
      [] layout = "halves" -> 2 * x >= width

layout_image(layout, c1, c2, width, height) ==
    [p \in Positions(width, height) |->
        IF second_colour(layout, p[1], p[2], width) THEN c2 ELSE c1]

AnImages(width, height) ==
    {layout_image(l, c1, c2, width, height) :
        l \in Layouts, c1 \in AnColors, c2 \in AnColors}

Builds == {"debug", "release"}

AInit ==
    /\ an_pc = "start"
    /\ an_build \in Builds
    /\ an_width \in 0 .. AnMaxW
    /\ an_height \in 0 .. AnMaxH
    /\ an_rgba \in AnImages(an_width, an_height)
    /\ an_result = [status |-> "none", underflow |-> FALSE, calls |-> <<>>,
                    analysis |-> ZeroAnalysis]
    /\ an_mode = "unset"

AIdle ==
    /\ an_pc = "idle"
    /\ an_build = "debug"
    /\ an_width = 0
    /\ an_height = 0
    /\ an_rgba = NewImage(0, 0)
    /\ an_result = [status |-> "none", underflow |-> FALSE, calls |-> <<>>,
                    analysis |-> ZeroAnalysis]
    /\ an_mode = "unset"

\* recommend_dithering_mode, first statement: analyze_image(img).
AnalyzeImage ==
    /\ an_pc = "start"
    /\ an_result' = analyze_image(an_rgba, an_width, an_height, an_build)
    /\ an_pc' = IF an_result'.status = "ok" THEN "analyzed" ELSE "panicked"
    /\ UNCHANGED <<an_build, an_width, an_height, an_rgba, an_mode>>

\* recommend_dithering_mode, second statement: select_optimal_mode(&analysis).
SelectMode ==
    /\ an_pc = "analyzed"
    /\ an_mode' = select_optimal_mode(an_result.analysis)
    /\ an_pc' = "done"
    /\ UNCHANGED <<an_build, an_width, an_height, an_rgba, an_result>>

---------------------------------------------------------------------------
(* Claims about the analyzer (checked under SpecAnalyze) *)

\* C11: for an image with zero width or zero height the analyzer returns
\* all five metrics equal to zero without entering any sampling function
\* and without failing, and the mode recommended for it is None.
C11_ZeroSizeIsNone ==
    (an_pc \in {"analyzed", "panicked", "done"} /\ (an_width = 0 \/ an_height = 0)) =>
        /\ an_pc # "panicked"
        /\ an_result.status = "ok"
        /\ an_result.calls = <<>>
        /\ an_result.analysis.gradient_smoothness = 0
        /\ an_result.analysis.edge_density = 0
        /\ an_result.analysis.color_diversity = 0
        /\ an_result.analysis.local_variance = 0
        /\ an_result.analysis.detail_frequency = 0
        /\ an_pc = "done" => an_mode = "None"

\* C11 witness: an image of width 0 and a positive height was analyzed and
\* None was recommended for it.
C11_Witness ==
    /\ an_pc = "done"
    /\ an_width = 0
    /\ an_height > 0
    /\ an_mode = "None"

\* C18: for every image with width >= 1 and height >= 1 the analyzer's
\* sampling loops never take an unsigned subtraction below zero and never
\* read a pixel outside the image, and the analysis returns its five
\* metrics.
C18_NoUnderflowNoOutOfBounds ==
    (an_pc # "start" /\ an_width >= 1 /\ an_height >= 1) =>
        /\ ~an_result.underflow
        /\ an_result.status = "ok"
        /\ Len(an_result.calls) = 5

---------------------------------------------------------------------------
(* Denoiser: minify.rs apply_selective_denoising, analyze_block,           *)
(* apply_median_filter_to_block                                            *)

BLOCK_SIZE == 8

\* pixel_diff is (dr + dg + db) / 3.0; the model keeps the numerator and
\* moves the divisions to the thresholds: a diff above 30.0 is a numerator
\* above 90, and the mean over total_pixels of a quarter of four diffs is
\* above t when the summed numerators are above 12 * t * total_pixels.
pixel_diff_times_3(p1, p2) ==
    Abs(p1[1] - p2[1]) + Abs(p1[2] - p2[2]) + Abs(p1[3] - p2[3])

EDGE_DIFF == 30
GRADIENT_EDGE_PERCENT == 15
GRADIENT_VARIANCE == 5
NOISE_LEVEL == 15

\* The blocks of an image, each as <<start_x, start_y, end_x, end_y>>.
min_u32(a, b) == IF a < b THEN a ELSE b

blocks_of(width, height) ==
    {<<bx, by, min_u32(bx + BLOCK_SIZE, width), min_u32(by + BLOCK_SIZE, height)>> :
        bx \in StepBy(0, width, BLOCK_SIZE), by \in StepBy(0, height, BLOCK_SIZE)}

block_pixels(b) == (b[1] .. b[3] - 1) \X (b[2] .. b[4] - 1)

\* The test both loops make before they touch a pixel of the block.
block_interior(b) ==
    {p \in block_pixels(b) :
        p[1] > 0 /\ p[2] > 0 /\ p[1] < b[3] - 1 /\ p[2] < b[4] - 1}

saturating_sub(a, b) == IF a < b THEN 0 ELSE a - b

\* The pixels analyze_block reads for a pixel that passed the test.
analyze_neighbors(p) ==
    {<<saturating_sub(p[1], 1), p[2]>>, <<p[1] + 1, p[2]>>,
     <<p[1], saturating_sub(p[2], 1)>>, <<p[1], p[2] + 1>>}

analyze_block_reads(b) ==
    UNION {{p} \cup analyze_neighbors(p) : p \in block_interior(b)}

\* analyze_block: the edge count, the pixel count and the summed diffs
\* (times 3) of each pixel to its four neighbours.
analyze_block(rgba, b) ==
    LET pixels == block_interior(b)
        is_edge(p) ==
            \/ pixel_diff_times_3(rgba[p], rgba[<<p[1] + 1, p[2]>>]) > 3 * EDGE_DIFF
            \/ pixel_diff_times_3(rgba[p], rgba[<<p[1], p[2] + 1>>]) > 3 * EDGE_DIFF
        neighbor_diffs(p) ==
            pixel_diff_times_3(rgba[p], rgba[<<saturating_sub(p[1], 1), p[2]>>])
            + pixel_diff_times_3(rgba[p], rgba[<<p[1] + 1, p[2]>>])
            + pixel_diff_times_3(rgba[p], rgba[<<p[1], saturating_sub(p[2], 1)>>])
            + pixel_diff_times_3(rgba[p], rgba[<<p[1], p[2] + 1>>])
    IN  [edge_count |-> Cardinality({p \in pixels : is_edge(p)}),
         total_pixels |-> Cardinality(pixels),
         diff_sum |-> SumOf([p \in pixels |-> neighbor_diffs(p)])]

\* avg_variance > t
avg_variance_above(r, t) ==
    r.total_pixels > 0 /\ r.diff_sum > 12 * t * r.total_pixels

\* is_gradient: edge_density < 0.15 && avg_variance > 5.0
is_gradient(r) ==
    /\ 100 * r.edge_count < GRADIENT_EDGE_PERCENT * r.total_pixels
       \/ r.total_pixels = 0
    /\ avg_variance_above(r, GRADIENT_VARIANCE)

\* A plausible slip: every block classified as a gradient is filtered,
\* without the second threshold on the noise level.
block_is_filtered_any_gradient(rgba, b) ==
    is_gradient(analyze_block(rgba, b))

\* apply_selective_denoising's test: is_gradient && noise_level > 15.0
block_is_filtered(rgba, b) ==
    LET r == analyze_block(rgba, b)
    IN  is_gradient(r) /\ avg_variance_above(r, NOISE_LEVEL)

\* The 3x3 neighbourhood the median filter reads around a pixel.
filter_window(p) ==
    {<<p[1] + dx, p[2] + dy>> : dx \in {-1, 0, 1}, dy \in {-1, 0, 1}}

filter_block_reads(b) == UNION {filter_window(p) : p \in block_interior(b)}

\* values[4] of the nine sorted values of a channel.
MEDIAN_INDEX == 4

median_channel(source, p, ch) ==
    LET value(q) == source[q][ch]
        window == filter_window(p)
    IN  value(CHOOSE q \in window :
                  /\ Cardinality({o \in window : value(o) < value(q)}) <= MEDIAN_INDEX
                  /\ Cardinality({o \in window : value(o) <= value(q)}) > MEDIAN_INDEX)

\* A filter that stores the medians in the order blue, green, red: not the
\* filter of the code.
median_pixel_bgr(source, p) ==
    <<median_channel(source, p, 3), median_channel(source, p, 2),
      median_channel(source, p, 1), source[p][4]>>

\* The pixel apply_median_filter_to_block puts at an interior position.
median_pixel(source, p) ==
    <<median_channel(source, p, 1), median_channel(source, p, 2),
      median_channel(source, p, 3), source[p][4]>>

\* apply_selective_denoising: every block is analysed on the input and, if
\* it is a noisy gradient, filtered from the input into the result, which
\* starts as a copy of the input.  A block writes pixels of its own only,
\* so the result is given pixel by pixel.
apply_selective_denoising(rgba, width, height) ==
    LET filtered == {b \in blocks_of(width, height) : block_is_filtered(rgba, b)}
        written == UNION {block_interior(b) : b \in filtered}
    IN  [p \in Positions(width, height) |->
            IF p \in written THEN median_pixel(rgba, p) ELSE rgba[p]]

\* apply_selective_denoising as the block loop runs it: the body for one
\* block, reading the input rgba and writing the result, and the loop over
\* the blocks in a given order (the code's order is by rows of blocks, each
\* row left to right).
apply_median_filter_to_block(source, dest, b) ==
    [p \in DOMAIN dest |->
        IF p \in block_interior(b) THEN median_pixel(source, p) ELSE dest[p]]

denoise_block(rgba, result, b) ==
    IF block_is_filtered(rgba, b)
    THEN apply_median_filter_to_block(rgba, result, b)
    ELSE result

RECURSIVE denoise_blocks(_, _, _)
denoise_blocks(rgba, result, order) ==
    IF order = <<>> THEN result
    ELSE denoise_blocks(rgba, denoise_block(rgba, result, Head(order)), Tail(order))

\* The images the denoiser is run on: a flat area of one colour up to a
\* column or row, and a one-pixel checkerboard of two colours from there on.
DnMaxW == 10
DnMaxH == 10
DnMaxPasses == 2
DnColors == {<<100, 110, 120, 255>>, <<130, 140, 150, 128>>,
             <<104, 114, 124, 255>>, <<255, 255, 255, 0>>}

checker_from(by_column, k, c1, c2, width, height) ==
    [p \in Positions(width, height) |->
        IF (IF by_column THEN p[1] ELSE p[2]) >= k /\ (p[1] + p[2]) % 2 = 1
        THEN c2 ELSE c1]

DnImages(width, height) ==
    {checker_from(by_column, k, c1, c2, width, height) :
        by_column \in BOOLEAN, k \in 0 .. width, c1 \in DnColors, c2 \in DnColors}

NInit ==
    /\ dn_passes = 0
    /\ dn_width \in 1 .. DnMaxW
    /\ dn_height \in 1 .. DnMaxH
    /\ dn_rgba \in DnImages(dn_width, dn_height)
    /\ dn_source = dn_rgba
    /\ dn_result = dn_rgba

NIdle ==
    /\ dn_passes = 0
    /\ dn_width = 0
    /\ dn_height = 0
    /\ dn_rgba = NewImage(0, 0)
    /\ dn_source = NewImage(0, 0)
    /\ dn_result = NewImage(0, 0)

\* apply_selective_denoising is applied to the image, and then again to its
\* own output.  dn_source is the input of the latest application.
SelectiveDenoising ==
    /\ dn_width > 0
    /\ dn_passes < DnMaxPasses
    /\ dn_source' = dn_result
    /\ dn_result' = apply_selective_denoising(dn_result, dn_width, dn_height)
    /\ dn_passes' = dn_passes + 1
    /\ UNCHANGED <<dn_width, dn_height, dn_rgba>>

---------------------------------------------------------------------------
(* Claims about the denoiser (checked under SpecDenoise) *)

\* A pixel is in a flat region when every pixel of its 3x3 neighbourhood
\* that lies in the image has its four bytes.
is_flat(img, p) ==
    \A q \in filter_window(p) \cap DOMAIN img : img[q] = img[p]

FilteredBlocks == {b \in blocks_of(dn_width, dn_height) : block_is_filtered(dn_source, b)}

\* C15: the denoiser leaves every pixel of a locally uniform region
\* unchanged, on the first application and when it is applied again to its
\* own output.
C15_FlatUnchanged ==
    dn_passes >= 1 =>
        \A p \in Positions(dn_width, dn_height) :
            is_flat(dn_source, p) => dn_result[p] = dn_source[p]

\* C15 witness: the denoiser was applied to its own output, the first
\* application had changed pixels, and the second filtered a block that
\* holds a flat pixel the filter visits.
C15_Witness ==
    /\ dn_passes = 2
    /\ dn_source # dn_rgba
    /\ \E b \in FilteredBlocks :
          \E p \in block_interior(b) : is_flat(dn_source, p)

\* The first and last row and column of a block.
block_border(b) ==
    {p \in block_pixels(b) :
        p[1] \in {b[1], b[3] - 1} \/ p[2] \in {b[2], b[4] - 1}}

\* C16: for every block the denoiser filters, wherever it lies in the
\* image, the pixels of the block's first and last row and column are left
\* unchanged, and the pixels read while analysing or filtering the block
\* are pixels of that block.
C16_BlockBorderUntouched ==
    dn_passes >= 1 =>
        \A b \in FilteredBlocks :
            /\ \A p \in block_border(b) : dn_result[p] = dn_source[p]
            /\ analyze_block_reads(b) \subseteq block_pixels(b)
            /\ filter_block_reads(b) \subseteq block_pixels(b)

\* The orders in which the blocks of the image can be processed.
BlockOrders ==
    LET bs == blocks_of(dn_width, dn_height)
    IN  {o \in [1 .. Cardinality(bs) -> bs] :
            \A i, j \in 1 .. Cardinality(bs) : i # j => o[i] # o[j]}

\* Edge density below 0.15 and average 4-neighbour difference above 15.0,
\* on the counts of a block: the density is edge_count / total_pixels, the
\* average is diff_sum / 3 / 4 / total_pixels, and both are 0.0 for a block
\* without counted pixels.
NoisyGradient(r) ==
    /\ r.total_pixels > 0
    /\ 20 * r.edge_count < 3 * r.total_pixels
    /\ r.diff_sum > 180 * r.total_pixels

\* C28: the denoiser filters a block if and only if the block's edge
\* density is below 0.15 and its average 4-neighbour difference is above
\* 15.0; every block that is not filtered is copied unchanged, alpha is
\* unchanged for every pixel, and the decision and the medians are computed
\* from the un-denoised input, so the result does not depend on the order
\* in which the blocks are processed.
C28_FilterDecision ==
    dn_passes >= 1 =>
        LET noisy == {b \in blocks_of(dn_width, dn_height) :
                         NoisyGradient(analyze_block(dn_source, b))}
        IN  /\ \A b \in blocks_of(dn_width, dn_height) \ noisy :
                  \A p \in block_pixels(b) : dn_result[p] = dn_source[p]
            /\ \A b \in noisy :
                  \A p \in block_interior(b) : dn_result[p] = median_pixel(dn_source, p)
            /\ \A p \in Positions(dn_width, dn_height) :
                  dn_result[p][4] = dn_source[p][4]
            /\ \A order \in BlockOrders :
                  denoise_blocks(dn_source, dn_source, order) = dn_result

\* C28 witness: of the several blocks of an image one was filtered, which
\* changed a pixel, and another has an average difference above 5.0 and
\* not above 15.0 with few edges and was copied.
C28_Witness ==
    /\ dn_passes = 1
    /\ \E b1, b2 \in blocks_of(dn_width, dn_height) :
          /\ b1 # b2
          /\ NoisyGradient(analyze_block(dn_source, b1))
          /\ \E p \in block_interior(b1) : dn_result[p] # dn_source[p]
          /\ LET r == analyze_block(dn_source, b2)
             IN  /\ r.total_pixels > 0
                 /\ 20 * r.edge_count < 3 * r.total_pixels
                 /\ r.diff_sum > 60 * r.total_pixels
                 /\ r.diff_sum <= 180 * r.total_pixels

---------------------------------------------------------------------------
(* Command line: arg_utils.rs Args::validate and main.rs main *)

\* A String is a sequence of one-character strings.
UPPER == <<"A", "B", "C", "D", "E", "F", "G", "H", "I", "J", "K", "L", "M",
           "N", "O", "P", "Q", "R", "S", "T", "U", "V", "W", "X", "Y", "Z">>
LOWER == <<"a", "b", "c", "d", "e", "f", "g", "h", "i", "j", "k", "l", "m",
           "n", "o", "p", "q", "r", "s", "t", "u", "v", "w", "x", "y", "z">>

\* str::to_lowercase on the characters of ASCII.
to_lowercase(s) ==
    [i \in 1 .. Len(s) |->
        IF \E k \in 1 .. Len(UPPER) : UPPER[k] = s[i]
        THEN LOWER[CHOOSE k \in 1 .. Len(UPPER) : UPPER[k] = s[i]]
        ELSE s[i]]

STR_auto == <<"a", "u", "t", "o">>
STR_none == <<"n", "o", "n", "e">>
STR_ordered == <<"o", "r", "d", "e", "r", "e", "d">>
STR_floyd == <<"f", "l", "o", "y", "d">>
STR_floyd_steinberg == STR_floyd \o <<"-", "s", "t", "e", "i", "n", "b", "e", "r", "g">>
STR_median == <<"m", "e", "d", "i", "a", "n">>
STR_mediancut == STR_median \o <<"c", "u", "t">>

\* The values of --dithering the model passes: each word validate names in
\* several casings, and values it does not name.
DitheringInputs ==
    { STR_auto, <<"A", "u", "t", "o">>, <<"A", "U", "T", "O">>,
      STR_none, <<"N", "O", "N", "E">>,
      STR_ordered, <<"O", "r", "d", "e", "r", "e", "d">>,
      STR_floyd, <<"F", "l", "o", "y", "d">>,
      STR_floyd_steinberg,
      <<"F", "L", "O", "Y", "D", "-", "S", "T", "E", "I", "N", "B", "E", "R", "G">>,
      STR_median, <<"M", "e", "d", "i", "a", "n">>,
      STR_mediancut, <<"M", "e", "d", "i", "a", "n", "C", "u", "t">>,
      <<>>, <<"f", "s">>, <<"b", "a", "y", "e", "r">>,
      <<"f", "l", "o", "y", "d", "_", "s", "t", "e", "i", "n", "b", "e", "r", "g">>,
      <<"m", "e", "d", "i", "u", "m">> }

\* quality is a u8.
U8_MAX == 255

\* smooth is an f32; the model holds it in tenths (5.0 is 50).
SmoothInputs == {0, 15, 51}

ERR_quality == "Quality must be between 1 and 100"
ERR_smooth == "Smooth radius must be between 0.0 and 5.0"
ERR_force_skip == "Cannot use --force and --skip together"
ERR_validate_dithering ==
    "Invalid dithering mode. Use: auto, none, ordered, floyd, or median"
ERR_main_dithering == "Invalid dithering mode. Use: auto, none, ordered, or floyd"

\* The dithering words Args::validate accepts (after lowercasing).
validate_dithering_words ==
    {STR_auto, STR_none, STR_ordered, STR_floyd, STR_floyd_steinberg,
     STR_mediancut, STR_median}

\* Args::validate: the first failing test gives the error, "" is Ok(()).
validate(a) ==
    IF a.quality = 0 \/ a.quality > 100 THEN ERR_quality
    ELSE IF a.smooth < 0 \/ a.smooth > 50 THEN ERR_smooth
    ELSE IF a.force /\ a.skip THEN ERR_force_skip
    ELSE IF to_lowercase(a.dithering) \notin validate_dithering_words
         THEN ERR_validate_dithering
    ELSE ""

\* main's match on the lowercased dithering word; "Err" is the arm that
\* returns the error.
parse_dithering_mode(dithering) ==
    LET s == to_lowercase(dithering)
    IN  IF s = STR_auto THEN "Auto"
        ELSE IF s = STR_none THEN "None"
        ELSE IF s = STR_ordered THEN "Ordered"
        ELSE IF s = STR_floyd \/ s = STR_floyd_steinberg THEN "FloydSteinberg"
        ELSE "Err"

\* A step table whose first range ends before 40: not what the code does.
downsampling_factor_exclusive(quality) ==
    IF quality < 40 THEN 32
    ELSE IF quality <= 55 THEN 16
    ELSE IF quality <= 70 THEN 12
    ELSE 8

\* apply_quantization's match on the quality (a u8, so 0 is the least).
downsampling_factor(quality) ==
    IF quality <= 40 THEN 32
    ELSE IF quality <= 55 THEN 16
    ELSE IF quality <= 70 THEN 12
    ELSE 8

\* main's match on the quality for the "Downsampling" line it prints.
main_downsampling_factor(quality) ==
    IF quality \in 0 .. 40 THEN 32
    ELSE IF quality \in 41 .. 55 THEN 16
    ELSE IF quality \in 56 .. 70 THEN 12
    ELSE 8

\* Args after Args::parse.
CliArgs ==
    [dithering : DitheringInputs, quality : 0 .. U8_MAX, smooth : SmoothInputs,
     force : BOOLEAN, skip : BOOLEAN, lossless : BOOLEAN]

\* Args::new: the values of an Args before any option is read.
Args_new ==
    [dithering |-> STR_floyd, quality |-> 40, smooth |-> 0,
     force |-> FALSE, skip |-> FALSE, lossless |-> FALSE]

\* The options of a command line.  An option that takes a value is the set
\* of the value given, empty when the option is not on the command line; a
\* flag is TRUE when it is on the command line.
CommandLines ==
    [dithering : {{}} \cup {{d} : d \in DitheringInputs},
     quality : {{}} \cup {{q} : q \in 0 .. U8_MAX},
     smooth : {{}} \cup {{r} : r \in SmoothInputs},
     force : BOOLEAN, skip : BOOLEAN, lossless : BOOLEAN]

given_or(option, default) ==
    IF option = {} THEN default ELSE CHOOSE v \in option : TRUE

\* Args::parse for a command line whose values parse: every option given
\* overwrites the field Args::new has set.
Args_parse(line) ==
    [dithering |-> given_or(line.dithering, Args_new.dithering),
     quality |-> given_or(line.quality, Args_new.quality),
     smooth |-> given_or(line.smooth, Args_new.smooth),
     force |-> IF line.force THEN TRUE ELSE Args_new.force,
     skip |-> IF line.skip THEN TRUE ELSE Args_new.skip,
     lossless |-> IF line.lossless THEN TRUE ELSE Args_new.lossless]

CInit ==
    /\ cli_pc = "start"
    /\ cli_line \in CommandLines
    /\ cli_args = Args_new
    /\ cli_error = ""
    /\ dithering_mode = "unset"
    /\ printed_factor = 0
    /\ used_factor = 0

CIdle ==
    /\ cli_pc = "idle"
    /\ cli_line = [dithering |-> {}, quality |-> {}, smooth |-> {},
                   force |-> FALSE, skip |-> FALSE, lossless |-> FALSE]
    /\ cli_args = Args_new
    /\ cli_error = ""
    /\ dithering_mode = "unset"
    /\ printed_factor = 0
    /\ used_factor = 0

\* main: Args::parse()
CliParse ==
    /\ cli_pc = "start"
    /\ cli_args' = Args_parse(cli_line)
    /\ cli_pc' = "parsed"
    /\ UNCHANGED <<cli_line, cli_error, dithering_mode, printed_factor, used_factor>>

\* main: args.validate()?
CliValidate ==
    /\ cli_pc = "parsed"
    /\ cli_error' = validate(cli_args)
    /\ cli_pc' = IF validate(cli_args) = "" THEN "validated" ELSE "failed"
    /\ UNCHANGED <<cli_line, cli_args, dithering_mode, printed_factor, used_factor>>

\* main: the dithering word becomes a DitheringMode, or main returns.
CliParseMode ==
    /\ cli_pc = "validated"
    /\ LET mode == parse_dithering_mode(cli_args.dithering)
       IN  IF mode = "Err"
           THEN /\ cli_error' = ERR_main_dithering
                /\ cli_pc' = "failed"
                /\ UNCHANGED dithering_mode
           ELSE /\ dithering_mode' = mode
                /\ cli_pc' = "mode_parsed"
                /\ UNCHANGED cli_error
    /\ UNCHANGED <<cli_line, cli_args, printed_factor, used_factor>>

\* main: the settings are printed; the downsampling line only when lossy.
CliPrintSettings ==
    /\ cli_pc = "mode_parsed"
    /\ printed_factor' = IF cli_args.lossless THEN 0
                         ELSE main_downsampling_factor(cli_args.quality)
    /\ cli_pc' = "printed"
    /\ UNCHANGED <<cli_line, cli_args, cli_error, dithering_mode, used_factor>>

\* main -> process_file -> minify_png: a lossy run reaches
\* apply_quantization, which derives its step from the quality.
CliProcess ==
    /\ cli_pc = "printed"
    /\ used_factor' = IF cli_args.lossless THEN 0
                      ELSE downsampling_factor(cli_args.quality)
    /\ cli_pc' = "processing"
    /\ UNCHANGED <<cli_line, cli_args, cli_error, dithering_mode, printed_factor>>

---------------------------------------------------------------------------
(* Claims about the command line (checked under SpecCli) *)

\* C19: for every quality in 1..100 the step the transform uses is 32 for
\* 1-40, 16 for 41-55, 12 for 56-70 and 8 for 71-100; no higher quality in
\* 1..100 has a larger step; and the step equals the downsampling factor
\* main printed for the same quality.
C19_StepTable ==
    (cli_pc = "processing" /\ ~cli_args.lossless) =>
        LET q == cli_args.quality
        IN  /\ q \in 1 .. 100
            /\ q \in 1 .. 40 => used_factor = 32
            /\ q \in 41 .. 55 => used_factor = 16
            /\ q \in 56 .. 70 => used_factor = 12
            /\ q \in 71 .. 100 => used_factor = 8
            /\ \A q2 \in q .. 100 : downsampling_factor(q2) <= used_factor
            /\ used_factor = printed_factor

\* C19 witness: a lossy run at quality 40, the last quality of the first
\* range, printed and used step 32.
C19_Witness ==
    /\ cli_pc = "processing"
    /\ ~cli_args.lossless
    /\ cli_args.quality = 40
    /\ used_factor = 32
    /\ printed_factor = 32

\* C20: every dithering value Args::validate accepts is mapped by main to a
\* dithering mode and processing proceeds: once validate has returned Ok,
\* main does not fail with its "Invalid dithering mode" error.
C20_AcceptedValuesProceed ==
    (validate(cli_args) = "" /\ cli_pc # "parsed") =>
        /\ cli_error # ERR_main_dithering
        /\ cli_pc # "failed"

\* C21: when no --dithering, -d or -m option is on the command line, the
\* dithering mode used for processing is Auto.
C21_DefaultIsAuto ==
    (cli_line.dithering = {} /\ cli_pc \in {"mode_parsed", "printed", "processing"})
        => dithering_mode = "Auto"

---------------------------------------------------------------------------
(* Lossy pipeline: minify.rs apply_quality_lossy_minification and          *)
(* apply_quantization                                                      *)

\* apply_darkening on one channel: (value as f32 * 0.8) as u8 below 16,
\* (value as f32 * 0.9) as u8 below 32.  The f32 product of an integer below
\* 32 with 0.8 or 0.9 rounds to the exact product where that is an integer,
\* so the cast gives the exact product rounded down.
DARK_SHADOW == 16
DARK_LIGHT_SHADOW == 32

darken_channel(value) ==
    IF value < DARK_SHADOW THEN (value * 8) \div 10
    ELSE IF value < DARK_LIGHT_SHADOW THEN (value * 9) \div 10
    ELSE value

apply_darkening(rgba) ==
    [p \in DOMAIN rgba |->
        <<darken_channel(rgba[p][1]), darken_channel(rgba[p][2]),
          darken_channel(rgba[p][3]), rgba[p][4]>>]

\* The pixel loop of apply_floyd_steinberg_dithering from the k-th pixel in
\* scan order on.
RECURSIVE fs_run(_, _, _, _, _)
fs_run(buf, k, width, height, factor) ==
    IF k >= width * height THEN buf
    ELSE fs_run(fs_step(buf, ScanX(k, width), ScanY(k, width), width, height, factor),
                k + 1, width, height, factor)

apply_floyd_steinberg_dithering(rgba, width, height, factor) ==
    fs_to_image(fs_run(rgba, 0, width, height, factor))

\* The variants of minify.rs DitheringMode.
DitheringModes == {"None", "FloydSteinberg", "Ordered", "Auto"}

\* A match whose Auto arm runs Floyd-Steinberg instead of returning the
\* error: not the match of the code.
run_engine_auto_as_floyd(rgba, width, height, factor, mode) ==
    CASE mode = "None" ->
           [ran |-> <<"apply_no_dithering">>,
            image |-> apply_no_dithering(rgba, width, height, factor)]
      [] mode \in {"FloydSteinberg", "Auto"} ->
           [ran |-> <<"apply_floyd_steinberg_dithering">>,
            image |-> apply_floyd_steinberg_dithering(rgba, width, height, factor)]
      [] mode = "Ordered" ->
           [ran |-> <<"apply_ordered_dithering">>,
            image |-> apply_ordered_dithering(rgba, width, height, factor)]
      [] OTHER -> [ran |-> <<>>, image |-> NewImage(0, 0)]

\* apply_quantization's match on the mode: the pixel transforms it runs and
\* the image they give.  The Auto arm returns the error.  DitheringMode has
\* no further variant: for the MedianCut the selector names there is no arm
\* and no transform (quantize_image_with_median is called from nowhere).
run_engine(rgba, width, height, factor, mode) ==
    CASE mode = "None" ->
           [ran |-> <<"apply_no_dithering">>,
            image |-> apply_no_dithering(rgba, width, height, factor)]
      [] mode = "FloydSteinberg" ->
           [ran |-> <<"apply_floyd_steinberg_dithering">>,
            image |-> apply_floyd_steinberg_dithering(rgba, width, height, factor)]
      [] mode = "Ordered" ->
           [ran |-> <<"apply_ordered_dithering">>,
            image |-> apply_ordered_dithering(rgba, width, height, factor)]
      [] OTHER -> [ran |-> <<>>, image |-> NewImage(0, 0)]

ERR_auto_unresolved == "Auto dithering mode should be resolved before quantization"

\* apply_quantization with smooth_radius 0: darkening, the step for the
\* quality, the transform for the mode, the denoiser if asked for, the PNG
\* encoder.  The record says how the call ended, which pixel transforms
\* ran, the transform's image, whether denoiser and encoder ran, and the
\* image that was encoded into the returned buffer.
apply_quantization(img, width, height, quality, mode, denoise) ==
    LET rgba == apply_darkening(img)
        engine == run_engine(rgba, width, height, downsampling_factor(quality), mode)
    IN  IF engine.ran = <<>>
        THEN [result |-> IF mode = "Auto" THEN "Err" ELSE "NoSuchVariant",
              error |-> IF mode = "Auto" THEN ERR_auto_unresolved ELSE "",
              transforms |-> <<>>, quantized_img |-> NewImage(0, 0),
              denoised |-> FALSE, encoded |-> FALSE, buffer |-> NewImage(0, 0)]
        ELSE [result |-> "Ok", error |-> "",
              transforms |-> engine.ran, quantized_img |-> engine.image,
              denoised |-> denoise, encoded |-> TRUE,
              buffer |-> IF denoise
                         THEN apply_selective_denoising(engine.image, width, height)
                         ELSE engine.image]

\* The images the pipeline is run on: small images of dark and bright
\* colours for every mode, and two larger ones that are passed with mode
\* Auto: a 64x64 one-pixel checkerboard of two different colours, and an
\* illustration of 320 colours in 16 columns and 20 rows.
PipeMaxW == 3
PipeMaxH == 2
PipeQualities == {40, 80}
PipeColors == {<<10, 20, 40, 255>>, <<200, 100, 30, 128>>}

PipeImages(width, height) ==
    {layout_image(l, c1, c2, width, height) :
        l \in {"solid", "checker"}, c1 \in PipeColors, c2 \in PipeColors}

illustration_row(y) ==
    LET k == y \div 4
        j == y % 4
    IN  IF j = 3 THEN <<k, 8>>
        ELSE IF k = 4 THEN <<<<12, 14, 15>>[j + 1], 0>>
        ELSE <<<<3 * k, 3 * k + 2, 3 * k + 1>>[j + 1], 0>>

Illustration ==
    [p \in Positions(16, 20) |->
        <<16 * illustration_row(p[2])[1], 16 * illustration_row(p[2])[2],
          16 * p[1], 255>>]

Checkerboards ==
    {layout_image("checker", c[1], c[2], 64, 64) :
        c \in {d \in AnColors \X AnColors : d[1] # d[2]}}

NoOutput ==
    [result |-> "none", error |-> "", transforms |-> <<>>,
     quantized_img |-> NewImage(0, 0), denoised |-> FALSE, encoded |-> FALSE,
     buffer |-> NewImage(0, 0)]

NoAnalysis ==
    [status |-> "none", underflow |-> FALSE, calls |-> <<>>,
     analysis |-> ZeroAnalysis]

PInit ==
    /\ p_pc = "start"
    /\ p_build \in Builds
    /\ p_quality \in PipeQualities
    /\ \/ /\ p_entry \in {"apply_quality_lossy_minification", "apply_quantization"}
          /\ p_width \in 1 .. PipeMaxW
          /\ p_height \in 1 .. PipeMaxH
          /\ p_img \in PipeImages(p_width, p_height)
          /\ p_requested \in DitheringModes
          /\ p_denoise \in BOOLEAN
       \/ /\ p_entry = "apply_quality_lossy_minification"
          /\ p_width = 64
          /\ p_height = 64
          /\ p_img \in Checkerboards
          /\ p_requested = "Auto"
          /\ p_denoise = FALSE
       \/ /\ p_entry = "apply_quality_lossy_minification"
          /\ p_width = 16
          /\ p_height = 20
          /\ p_img = Illustration
          /\ p_requested = "Auto"
          /\ p_denoise = FALSE
    /\ p_analysis = NoAnalysis
    /\ p_effective = "unset"
    /\ p_out = NoOutput

PIdle ==
    /\ p_pc = "idle"
    /\ p_entry = "apply_quality_lossy_minification"
    /\ p_build = "debug"
    /\ p_quality = 40
    /\ p_width = 0
    /\ p_height = 0
    /\ p_img = NewImage(0, 0)
    /\ p_requested = "FloydSteinberg"
    /\ p_denoise = FALSE
    /\ p_analysis = NoAnalysis
    /\ p_effective = "unset"
    /\ p_out = NoOutput

\* apply_quality_lossy_minification: the effective mode.  Auto is resolved
\* by recommend_dithering_mode (a panic in the analyzer ends the run); any
\* other mode is kept.
ResolveMode ==
    /\ p_pc = "start"
    /\ p_entry = "apply_quality_lossy_minification"
    /\ IF p_requested = "Auto"
       THEN /\ p_analysis' = analyze_image(p_img, p_width, p_height, p_build)
            /\ p_effective' = IF p_analysis'.status = "ok"
                              THEN select_optimal_mode(p_analysis'.analysis)
                              ELSE "unset"
            /\ p_pc' = IF p_analysis'.status = "ok" THEN "resolved" ELSE "panicked"
       ELSE /\ p_effective' = p_requested
            /\ p_pc' = "resolved"
            /\ UNCHANGED p_analysis
    /\ UNCHANGED <<p_entry, p_build, p_quality, p_width, p_height, p_img,
                   p_requested, p_denoise, p_out>>

\* apply_quantization, called with the effective mode by
\* apply_quality_lossy_minification or with the given mode by itself.
ApplyQuantization ==
    /\ \/ p_pc = "resolved"
       \/ p_pc = "start" /\ p_entry = "apply_quantization"
    /\ p_effective' = IF p_pc = "resolved" THEN p_effective ELSE p_requested
    /\ p_out' = apply_quantization(p_img, p_width, p_height, p_quality,
                                   p_effective', p_denoise)
    /\ p_pc' = "done"
    /\ UNCHANGED <<p_entry, p_build, p_quality, p_width, p_height, p_img,
                   p_requested, p_denoise, p_analysis>>

---------------------------------------------------------------------------
(* Claims about the pipeline (checked under SpecPipeline) *)

\* C12: if apply_quantization is called with mode Auto it returns an error
\* and produces no pixel buffer: no engine runs in its place, and neither
\* the denoiser nor the encoder is run.
C12_AutoIsRefused ==
    (p_pc = "done" /\ p_effective = "Auto") =>
        /\ p_out.result = "Err"
        /\ p_out.error = ERR_auto_unresolved
        /\ p_out.transforms = <<>>
        /\ p_out.quantized_img = NewImage(0, 0)
        /\ p_out.buffer = NewImage(0, 0)
        /\ ~p_out.denoised
        /\ ~p_out.encoded

\* C12 witness: apply_quantization was called with Auto and the denoise
\* flag set, and returned the error.
C12_Witness ==
    /\ p_pc = "done"
    /\ p_entry = "apply_quantization"
    /\ p_requested = "Auto"
    /\ p_denoise
    /\ p_out.result = "Err"

\* The pixel transform that matches a mode.
transform_of(mode) ==
    CASE mode = "None" -> "apply_no_dithering"
      [] mode = "Ordered" -> "apply_ordered_dithering"
      [] mode = "FloydSteinberg" -> "apply_floyd_steinberg_dithering"
      [] mode = "MedianCut" -> "quantize_image_with_median"
      [] OTHER -> "none"

\* C13: for every requested mode exactly one pixel transform runs on the
\* full buffer and it is the one that matches the resolved mode; Auto is
\* first resolved by the analyzer and the selector, and the mode the
\* selector returns, MedianCut included, is then executed.
C13_OneMatchingTransform ==
    /\ (p_entry = "apply_quality_lossy_minification" /\ p_pc = "resolved") =>
          p_effective = IF p_requested = "Auto"
                        THEN select_optimal_mode(p_analysis.analysis)
                        ELSE p_requested
    /\ (p_entry = "apply_quality_lossy_minification" /\ p_pc = "done") =>
          /\ p_out.transforms = <<transform_of(p_effective)>>
          /\ DOMAIN p_out.quantized_img = Positions(p_width, p_height)

OutputColours == {<<p_out.quantized_img[p][1], p_out.quantized_img[p][2],
                    p_out.quantized_img[p][3]>> : p \in DOMAIN p_out.quantized_img}

IsCheckerboard == p_width = 64 /\ p_height = 64 /\ p_img \in Checkerboards

\* C14 as stated: for a 64x64 one-pixel checkerboard of two colours the
\* analyzer reports a high edge density (above the selector's low-edge
\* threshold), Auto resolves to FloydSteinberg or Ordered, and the
\* transformed output contains only 2 colours.
C14_CheckerboardIsDithered ==
    (IsCheckerboard /\ p_pc \in {"resolved", "done"}) =>
        /\ p_analysis.analysis.edge_density > LOW_EDGE_THRESHOLD
        /\ p_effective \in {"FloydSteinberg", "Ordered"}
        /\ p_pc = "done" => Cardinality(OutputColours) <= 2

\* C14 amended: for a 64x64 one-pixel checkerboard of two colours the
\* analyzer reports edge density 0 and at most 2 colour buckets, Auto
\* resolves to None, and the transformed output contains at most 2 colours.
C14_CheckerboardIsFlat ==
    (IsCheckerboard /\ p_pc \in {"resolved", "done"}) =>
        /\ p_analysis.status = "ok"
        /\ p_analysis.analysis.edge_density = 0
        /\ p_analysis.analysis.color_diversity <= 2
        /\ p_effective = "None"
        /\ p_pc = "done" =>
              /\ p_out.transforms = <<"apply_no_dithering">>
              /\ Cardinality(OutputColours) <= 2

\* C14 witness: a black and white checkerboard went through the pipeline
\* and came out with 2 colours.
C14_Witness ==
    /\ IsCheckerboard
    /\ p_pc = "done"
    /\ p_img[<<0, 0>>] = <<0, 0, 0, 255>>
    /\ p_img[<<1, 0>>] = <<255, 255, 255, 255>>
    /\ p_analysis.analysis.gradient_smoothness = 765
    /\ Cardinality(OutputColours) = 2

---------------------------------------------------------------------------
(* The minification marker: minify.rs is_already_minified,                 *)
(* parse_minification_info and add_minification_marker_with_info           *)
(*                                                                         *)
(* A text is a sequence of bytes, each written as a one-character string;  *)
(* NUL is the zero byte and BYTE_FF a byte that is not valid UTF-8.  A PNG *)
(* file is a record of its 8 signature bytes and its chunks; a chunk has   *)
(* a type, the length its length field declares, its data (the text of a   *)
(* tEXt chunk, empty for the chunks whose data is never read) and its CRC. *)
(* Every chunk is complete: it occupies 12 + length bytes of the file.     *)

NUL == "NUL"
BYTE_FF == "0xFF"
DIGITS == <<"0", "1", "2", "3", "4", "5", "6", "7", "8", "9">>

MARKER_STRING ==
    <<"M", "i", "n", "i", "P", "N", "G", " ", "b", "y", " ", "P", ".", " ",
        "A", "n", "d", "r", "i", "a", "n", ".", NUL>>
PNG_SIGNATURE == <<137, 80, 78, 71, 13, 10, 26, 10>>
MAX_CHUNK_LENGTH == 10000000
CHUNK_OVERHEAD == 12

KEY_quality == <<"q", "u", "a", "l", "i", "t", "y">>
KEY_lossless == <<"l", "o", "s", "s", "l", "e", "s", "s">>
KEY_reduction == <<"r", "e", "d", "u", "c", "t", "i", "o", "n">>
KEY_timestamp == <<"t", "i", "m", "e", "s", "t", "a", "m", "p">>
TEXT_true == <<"t", "r", "u", "e">>
TEXT_false == <<"f", "a", "l", "s", "e">>

\* slice.starts_with(prefix)
starts_with(text, prefix) ==
    /\ Len(text) >= Len(prefix)
    /\ SubSeq(text, 1, Len(prefix)) = prefix

\* str::split(sep): the pieces of text between the separators, from
\* position i on, the piece begun so far being piece.
RECURSIVE SplitFrom(_, _, _, _)
SplitFrom(text, sep, i, piece) ==
    IF i > Len(text) THEN <<piece>>
    ELSE IF text[i] = sep THEN <<piece>> \o SplitFrom(text, sep, i + 1, <<>>)
    ELSE SplitFrom(text, sep, i + 1, Append(piece, text[i]))

split(text, sep) == SplitFrom(text, sep, 1, <<>>)

digit_value(c) == (CHOOSE i \in 1 .. 10 : DIGITS[i] = c) - 1
is_digit(c) == \E i \in 1 .. 10 : DIGITS[i] = c

\* The number a text of decimal digits denotes, while it stays below limit
\* (limit + 1 stands for every larger number).
RECURSIVE DigitsValue(_, _)
DigitsValue(text, limit) ==
    IF text = <<>> THEN 0
    ELSE LET high == DigitsValue(SubSeq(text, 1, Len(text) - 1), limit)
             v == 10 * high + digit_value(text[Len(text)])
         IN  IF high > limit \/ v > limit THEN limit + 1 ELSE v

\* The decimal digits of a natural number, as format!("{}", n) writes them.
RECURSIVE to_decimal(_)
to_decimal(n) ==
    IF n < 10 THEN <<DIGITS[n + 1]>>
    ELSE Append(to_decimal(n \div 10), DIGITS[(n % 10) + 1])

\* str::parse::<u8>: an optional plus sign and at least one digit, the
\* value at most 255.  The result is the set of the value, empty for Err.
parse_u8(text) ==
    LET digits == IF text # <<>> /\ text[1] = "+" THEN Tail(text) ELSE text
    IN  IF digits = <<>> \/ \E i \in 1 .. Len(digits) : ~is_digit(digits[i])
        THEN {}
        ELSE IF DigitsValue(digits, U8_MAX) > U8_MAX THEN {}
        ELSE {DigitsValue(digits, U8_MAX)}

\* An f64 that a marker reads or writes is held as a fraction
\* [num, den] of integers; the ones read are in thousandths.
THOUSANDTHS == 1000
MAX_PERCENT_DIGITS == 999999

\* str::parse::<f64> on the texts a marker can hold: digits, and at most
\* one point followed by up to three digits.  Any other text here is not a
\* number and gives the empty set (Err).
parse_f64(text) ==
    LET parts == split(text, ".")
        whole == parts[1]
        frac == IF Len(parts) = 2 THEN parts[2] ELSE <<>>
        all_digits(t) == \A i \in 1 .. Len(t) : is_digit(t[i])
        scale == <<1000, 100, 10, 1>>[Len(frac) + 1]
    IN  IF \/ Len(parts) > 2
           \/ Len(frac) > 3
           \/ whole = <<>> /\ frac = <<>>
           \/ ~all_digits(whole)
           \/ ~all_digits(frac)
        THEN {}
        ELSE {[num |-> DigitsValue(whole, MAX_PERCENT_DIGITS) * THOUSANDTHS
                        + DigitsValue(frac, MAX_PERCENT_DIGITS) * scale,
               den |-> THOUSANDTHS]}

\* The nearest integer to num / den for num >= 0, a tie going to the even
\* one: the rounding of format!("{:.1}") on a value that is exactly
\* halfway.
round_half_even(num, den) ==
    LET q == num \div den
        r == num % den
    IN  IF 2 * r > den THEN q + 1
        ELSE IF 2 * r < den THEN q
        ELSE IF q % 2 = 0 THEN q ELSE q + 1

\* format!("{:.1}", v) for v = num / den >= 0.
format_one_decimal(v) ==
    LET tenths == 10 * (v.num \div v.den)
                  + round_half_even(10 * (v.num % v.den), v.den)
    IN  to_decimal(tenths \div 10) \o <<".">> \o to_decimal(tenths % 10)

NoInfo == {}

\* parse_minification_info: the info a marker text holds, as the set of
\* the MinificationInfo (empty for None).  The options quality and
\* timestamp of the info are sets in the same way.
RECURSIVE ParsePairs(_, _, _)
ParsePairs(pairs, i, info) ==
    IF i > Len(pairs) THEN info
    ELSE LET parts == split(pairs[i], "=")
             next ==
                 IF Len(parts) # 2 THEN info
                 ELSE IF parts[1] = KEY_quality
                 THEN [info EXCEPT !.quality = parse_u8(parts[2])]
                 ELSE IF parts[1] = KEY_lossless
                 THEN [info EXCEPT !.lossless = (parts[2] = TEXT_true)]
                 ELSE IF parts[1] = KEY_reduction
                 THEN [info EXCEPT !.reduction_pct =
                           IF parse_f64(parts[2]) = {}
                           THEN [num |-> 0, den |-> THOUSANDTHS]
                           ELSE CHOOSE v \in parse_f64(parts[2]) : TRUE]
                 ELSE IF parts[1] = KEY_timestamp
                 THEN [info EXCEPT !.timestamp = {parts[2]}]
                 ELSE info
         IN  ParsePairs(pairs, i + 1, next)

parse_minification_info(marker_data) ==
    IF \E i \in 1 .. Len(marker_data) : marker_data[i] = BYTE_FF THEN NoInfo
    ELSE IF ~starts_with(marker_data, MARKER_STRING) THEN NoInfo
    ELSE {ParsePairs(split(SubSeq(marker_data, Len(MARKER_STRING) + 1,
                                  Len(marker_data)), ","), 1,
                     [quality |-> {}, lossless |-> FALSE,
                      reduction_pct |-> [num |-> 0, den |-> THOUSANDTHS],
                      timestamp |-> {}])}

\* is_already_minified's loop from the i-th chunk on.  The loop stops
\* after a chunk whose declared length is above 10,000,000.
RECURSIVE ScanForMarker(_, _)
ScanForMarker(chunks, i) ==
    IF i > Len(chunks) THEN [is_minified |-> FALSE, info |-> NoInfo]
    ELSE IF /\ chunks[i].type = "tEXt"
            /\ starts_with(chunks[i].data, MARKER_STRING)
    THEN [is_minified |-> TRUE, info |-> parse_minification_info(chunks[i].data)]
    ELSE IF chunks[i].length > MAX_CHUNK_LENGTH
    THEN [is_minified |-> FALSE, info |-> NoInfo]
    ELSE ScanForMarker(chunks, i + 1)

is_already_minified(png_data) ==
    IF png_data.signature # PNG_SIGNATURE
    THEN [is_minified |-> FALSE, info |-> NoInfo]
    ELSE ScanForMarker(png_data.chunks, 1)

\* crc_utils::hash of a chunk's type and data: the CRC-32 the PNG format
\* asks for, kept as the term it is computed from.
crc_utils_hash(crc_data) == <<"crc32", crc_data>>

\* add_minification_marker_with_info's search for IEND from the i-th
\* chunk on: the index of IEND, 0 when there is none, -1 when a chunk
\* before it declares a length above 10,000,000.
RECURSIVE FindIend(_, _)
FindIend(chunks, i) ==
    IF i > Len(chunks) THEN 0
    ELSE IF chunks[i].type = "IEND" THEN i
    ELSE IF chunks[i].length > MAX_CHUNK_LENGTH THEN -1
    ELSE FindIend(chunks, i + 1)

ERR_signature == "Invalid PNG signature"
ERR_chunk_length == "Invalid PNG chunk length"
ERR_no_iend == "IEND chunk not found"

\* An info text with the quality in it for a lossless run too: not the
\* text of the code.
info_str_always_quality(lossless, quality, reduction_pct, timestamp) ==
    KEY_quality \o <<"=">> \o to_decimal(quality) \o <<",">>
    \o KEY_lossless \o <<"=">> \o (IF lossless THEN TEXT_true ELSE TEXT_false)
    \o <<",">>
    \o KEY_reduction \o <<"=">> \o format_one_decimal(reduction_pct) \o <<",">>
    \o KEY_timestamp \o <<"=">> \o timestamp

\* The info text of the marker, for a lossless and for a lossy run.
info_str(lossless, quality, reduction_pct, timestamp) ==
    IF lossless
    THEN KEY_lossless \o <<"=">> \o TEXT_true \o <<",">>
         \o KEY_reduction \o <<"=">> \o format_one_decimal(reduction_pct) \o <<",">>
         \o KEY_timestamp \o <<"=">> \o timestamp
    ELSE KEY_quality \o <<"=">> \o to_decimal(quality) \o <<",">>
         \o KEY_lossless \o <<"=">> \o TEXT_false \o <<",">>
         \o KEY_reduction \o <<"=">> \o format_one_decimal(reduction_pct) \o <<",">>
         \o KEY_timestamp \o <<"=">> \o timestamp

marker_chunk(marker_bytes) ==
    [type |-> "tEXt", length |-> Len(marker_bytes), data |-> marker_bytes,
     crc |-> crc_utils_hash(<<"tEXt", marker_bytes>>)]

\* add_minification_marker_with_info: the file with the marker chunk put
\* in before IEND, or the error.
add_minification_marker_with_info(png_data, lossless, quality, reduction_pct, timestamp) ==
    LET iend_pos == FindIend(png_data.chunks, 1)
        marker_bytes ==
            MARKER_STRING \o info_str(lossless, quality, reduction_pct, timestamp)
    IN  IF png_data.signature # PNG_SIGNATURE
        THEN [status |-> "Err", error |-> ERR_signature, data |-> png_data]
        ELSE IF iend_pos = -1
        THEN [status |-> "Err", error |-> ERR_chunk_length, data |-> png_data]
        ELSE IF iend_pos = 0
        THEN [status |-> "Err", error |-> ERR_no_iend, data |-> png_data]
        ELSE [status |-> "Ok", error |-> "",
              data |-> [png_data EXCEPT !.chunks =
                           SubSeq(png_data.chunks, 1, iend_pos - 1)
                           \o <<marker_chunk(marker_bytes)>>
                           \o SubSeq(png_data.chunks, iend_pos,
                                     Len(png_data.chunks))]]

\* The number of bytes of a file: the signature and every chunk's length
\* field, type, data and CRC.
RECURSIVE chunks_len(_)
chunks_len(chunks) ==
    IF chunks = <<>> THEN 0
    ELSE CHUNK_OVERHEAD + Head(chunks).length + chunks_len(Tail(chunks))

file_len(png_data) == Len(png_data.signature) + chunks_len(png_data.chunks)

\* str::as_bytes of the texts used below.
TEXT_comment == <<"C", "o", "m", "m", "e", "n", "t", NUL, "m", "a", "d", "e", " ", "b",
      "y", " ", "h", "a", "n", "d">>
Timestamps == {<<"2", "0", "2", "6", "-", "0", "2", "-", "0", "6", "T", "2", "0", ":",
               "1", "5", ":", "3", "0", "Z">>,
               <<"2", "0", "2", "7", "-", "1", "1", "-", "3", "0", "T", "0", "9", ":",
               "0", "5", ":", "0", "1", "Z">>}

\* The chunks of the files below.  The CRC of a chunk that is read from a
\* file is whatever the file holds.
plain_chunk(type, length) ==
    [type |-> type, length |-> length, data |-> <<>>, crc |-> <<"stored">>]

text_chunk(text) ==
    [type |-> "tEXt", length |-> Len(text), data |-> text, crc |-> <<"stored">>]

png_file(chunks) == [signature |-> PNG_SIGNATURE, chunks |-> chunks]

\* An image file: IHDR, one IDAT chunk of the given length, the given
\* text chunks, IEND.
image_file(idat_length, texts) ==
    png_file(<<plain_chunk("IHDR", 13), plain_chunk("IDAT", idat_length)>>
             \o texts \o <<plain_chunk("IEND", 0)>>)

NoFile == [signature |-> <<>>, chunks |-> <<>>]

\* The marker texts of earlier runs of the tool, and one whose info is not
\* UTF-8.
OldMarkers ==
    {MARKER_STRING \o info_str(TRUE, 40, [num |-> 50, den |-> 1], ts) :
        ts \in Timestamps}
    \cup {MARKER_STRING \o info_str(FALSE, 60, [num |-> 1225, den |-> 100], ts) :
              ts \in Timestamps}

carries_marker(png_data) ==
    \E i \in 1 .. Len(png_data.chunks) :
        /\ png_data.chunks[i].type = "tEXt"
        /\ starts_with(png_data.chunks[i].data, MARKER_STRING)

\* The first chunk that is a marker of the tool.
first_marker(png_data) ==
    LET i == CHOOSE k \in 1 .. Len(png_data.chunks) :
                 /\ png_data.chunks[k].type = "tEXt"
                 /\ starts_with(png_data.chunks[k].data, MARKER_STRING)
                 /\ \A j \in 1 .. k - 1 :
                        ~(/\ png_data.chunks[j].type = "tEXt"
                          /\ starts_with(png_data.chunks[j].data, MARKER_STRING))
    IN  png_data.chunks[i].data

\* The streams a marker is added to: image files with a small, a largest
\* allowed and a too long IDAT chunk, with a comment, with a marker of an
\* earlier run, without IEND, and with a wrong signature.
MkIdatLengths == {0, 10, MAX_CHUNK_LENGTH, MAX_CHUNK_LENGTH + 1}
MkStreams ==
    {image_file(l, <<>>) : l \in MkIdatLengths}
    \cup {image_file(10, <<text_chunk(TEXT_comment)>>)}
    \cup {image_file(10, <<text_chunk(m)>>) : m \in OldMarkers}
    \cup {png_file(<<plain_chunk("IHDR", 13), plain_chunk("IDAT", 10)>>)}
    \cup {[image_file(10, <<>>) EXCEPT !.signature = <<0, 0, 0, 0, 0, 0, 0, 0>>]}
MkQualities == {0, 7, 40, 100, 255}
MkReductions ==
    {[num |-> 0, den |-> 100], [num |-> 995, den |-> 100],
     [num |-> 1225, den |-> 100], [num |-> 1234, den |-> 100],
     [num |-> 1275, den |-> 100], [num |-> 7300, den |-> 100],
     [num |-> 9996, den |-> 100]}

NoMarkerResult == [status |-> "none", error |-> "", data |-> NoFile]
NoMarkerFound == [is_minified |-> FALSE, info |-> NoInfo]

\* The files minify_png is run on: image files with and without a marker
\* of an earlier run, one whose marker follows an IDAT chunk longer than
\* 10,000,000 bytes, one whose marker info is not UTF-8, one with a
\* comment, and one with a wrong signature.
MpSources ==
    {image_file(l, <<>>) : l \in {40, 150}}
    \cup {image_file(150, <<text_chunk(m)>>) : m \in OldMarkers}
    \cup {image_file(MAX_CHUNK_LENGTH + 1, <<text_chunk(m)>>) : m \in OldMarkers}
    \cup {image_file(150, <<text_chunk(MARKER_STRING \o <<BYTE_FF>>)>>)}
    \cup {image_file(150, <<text_chunk(TEXT_comment)>>)}
    \cup {[image_file(150, <<>>) EXCEPT !.signature = <<0, 0, 0, 0, 0, 0, 0, 0>>]}

\* What apply_quality_lossless_minification or
\* apply_quality_lossy_minification returns: the error of the decoder or
\* the optimizer, or an optimized file.  The optimizer keeps no text chunk
\* and writes the image data as one IDAT chunk.
MpMinifiedLengths == {20, 100, 150, 260}
ERR_decode == "Failed to decode PNG"
MinifierOutcomes(source_data) ==
    {[status |-> "Err", error |-> ERR_decode, data |-> NoFile]}
    \cup IF source_data.signature # PNG_SIGNATURE THEN {}
         ELSE {[status |-> "Ok", error |-> "", data |-> image_file(l, <<>>)] :
                   l \in MpMinifiedLengths}

MpQualities == {40, 100}
MpMaxRuns == 2

NoRun ==
    [status |-> "none", error |-> "", original_size |-> 0, new_size |-> 0,
     info |-> NoInfo]

MkInit ==
    /\ mk_pc = "start"
    /\ mk_png \in MkStreams
    /\ mk_args \in [lossless : BOOLEAN, quality : MkQualities,
                    reduction_pct : MkReductions, timestamp : Timestamps]
    /\ mk_result = NoMarkerResult
    /\ mk_found = NoMarkerFound

MkIdle ==
    /\ mk_pc = "idle"
    /\ mk_png = NoFile
    /\ mk_args = [lossless |-> FALSE, quality |-> 40,
                  reduction_pct |-> [num |-> 0, den |-> 100],
                  timestamp |-> <<>>]
    /\ mk_result = NoMarkerResult
    /\ mk_found = NoMarkerFound

MpInit ==
    /\ mp_pc = "start"
    /\ mp_source \in MpSources
    /\ mp_same \in BOOLEAN
    /\ mp_target = IF mp_same THEN mp_source ELSE NoFile
    /\ mp_args \in [lossless_only : BOOLEAN, quality : MpQualities,
                    force : BOOLEAN]
    /\ mp_now \in Timestamps
    /\ mp_runs = 0
    /\ mp_ran = FALSE
    /\ mp_saved = FALSE
    /\ mp_written = {}
    /\ mp_prev_saved = FALSE
    /\ mp_result = NoRun

MpIdle ==
    /\ mp_pc = "idle"
    /\ mp_source = NoFile
    /\ mp_same = TRUE
    /\ mp_target = NoFile
    /\ mp_args = [lossless_only |-> FALSE, quality |-> 40, force |-> FALSE]
    /\ mp_now = <<>>
    /\ mp_runs = 0
    /\ mp_ran = FALSE
    /\ mp_saved = FALSE
    /\ mp_written = {}
    /\ mp_prev_saved = FALSE
    /\ mp_result = NoRun

FInit == (MkInit /\ MpIdle) \/ (MkIdle /\ MpInit)
FIdle == MkIdle /\ MpIdle

\* add_minification_marker_with_info on a stream
AddMarker ==
    /\ mk_pc = "start"
    /\ mk_result' = add_minification_marker_with_info(mk_png, mk_args.lossless,
                        mk_args.quality, mk_args.reduction_pct, mk_args.timestamp)
    /\ mk_pc' = IF mk_result'.status = "Ok" THEN "added" ELSE "failed"
    /\ UNCHANGED <<mk_png, mk_args, mk_found>>
    /\ UNCHANGED <<mp_pc, mp_source, mp_same, mp_target, mp_args, mp_now, mp_runs,
                   mp_ran, mp_saved, mp_written, mp_prev_saved, mp_result>>

\* is_already_minified on the stream with the marker
CheckMarker ==
    /\ mk_pc = "added"
    /\ mk_found' = is_already_minified(mk_result.data)
    /\ mk_pc' = "checked"
    /\ UNCHANGED <<mk_png, mk_args, mk_result>>
    /\ UNCHANGED <<mp_pc, mp_source, mp_same, mp_target, mp_args, mp_now, mp_runs,
                   mp_ran, mp_saved, mp_written, mp_prev_saved, mp_result>>

\* (1.0 - new_size / original_size) * 100.0
reduction_pct_of(new_size, original_size) ==
    [num |-> (original_size - new_size) * 100, den |-> original_size]

\* minify_png.  The file system calls succeed.  mp_source is the source
\* file as it was read, mp_target the file at target_path (the file at
\* source_path too when the two paths are the same), mp_written the paths
\* written, mp_ran whether a minification was run, mp_saved whether its
\* result was copied to the target.
MinifyPng ==
    /\ mp_pc = "start"
    /\ LET original_size == file_len(mp_source)
           found == IF mp_args.force THEN NoMarkerFound
                    ELSE is_already_minified(mp_source)
       IN  IF found.is_minified
           THEN /\ mp_result' = [status |-> "Ok", error |-> "",
                                 original_size |-> original_size,
                                 new_size |-> original_size, info |-> found.info]
                /\ mp_ran' = FALSE
                /\ mp_saved' = FALSE
                /\ mp_written' = {}
                /\ UNCHANGED mp_target
           ELSE \E minified \in MinifierOutcomes(mp_source) :
                LET new_size == file_len(minified.data)
                    marked == add_minification_marker_with_info(minified.data,
                                  mp_args.lossless_only, mp_args.quality,
                                  reduction_pct_of(new_size, original_size), mp_now)
                IN  /\ mp_ran' = TRUE
                    /\ IF minified.status = "Err"
                       THEN /\ mp_result' = [NoRun EXCEPT !.status = "Err",
                                                          !.error = minified.error]
                            /\ mp_saved' = FALSE
                            /\ mp_written' = {}
                            /\ UNCHANGED mp_target
                       ELSE IF new_size < original_size
                       THEN IF marked.status = "Err"
                            THEN /\ mp_result' = [NoRun EXCEPT !.status = "Err",
                                                               !.error = marked.error]
                                 /\ mp_saved' = FALSE
                                 /\ mp_written' = {"temp_file"}
                                 /\ UNCHANGED mp_target
                            ELSE /\ mp_result' =
                                        [status |-> "Ok", error |-> "",
                                         original_size |-> original_size,
                                         new_size |-> new_size, info |-> NoInfo]
                                 /\ mp_saved' = TRUE
                                 /\ mp_written' = {"temp_file", "target_path"}
                                 /\ mp_target' = marked.data
                       ELSE /\ mp_result' =
                                   [status |-> "Ok", error |-> "",
                                    original_size |-> original_size,
                                    new_size |-> original_size, info |-> NoInfo]
                            /\ mp_saved' = FALSE
                            /\ mp_written' = IF mp_same THEN {"temp_file"}
                                             ELSE {"temp_file", "target_path"}
                            /\ mp_target' = mp_source
    /\ mp_pc' = "done"
    /\ mp_runs' = mp_runs + 1
    /\ UNCHANGED <<mp_source, mp_same, mp_args, mp_now, mp_prev_saved>>
    /\ UNCHANGED <<mk_pc, mk_png, mk_args, mk_result, mk_found>>

\* The tool is run again on the file at target_path, in place, with the
\* same settings, forced or not.
MinifyAgain ==
    /\ mp_pc = "done"
    /\ mp_runs < MpMaxRuns
    /\ mp_result.status = "Ok"
    /\ mp_target # NoFile
    /\ mp_source' = mp_target
    /\ mp_same' = TRUE
    /\ mp_prev_saved' = mp_saved
    /\ mp_args' \in {[mp_args EXCEPT !.force = f] : f \in BOOLEAN}
    /\ mp_now' \in Timestamps
    /\ mp_pc' = "start"
    /\ mp_ran' = FALSE
    /\ mp_saved' = FALSE
    /\ mp_written' = {}
    /\ mp_result' = NoRun
    /\ UNCHANGED <<mp_target, mp_runs>>
    /\ UNCHANGED <<mk_pc, mk_png, mk_args, mk_result, mk_found>>

---------------------------------------------------------------------------
(* Claims about minify_png and the marker (checked under SpecFile) *)

\* C22: after minify_png returns Ok, the file at target_path is never
\* larger than the original source file: the result is saved only if it is
\* smaller than the original, otherwise the original bytes are kept (copied
\* to the target when the paths differ) and new_size is reported equal to
\* original_size.
C22_TargetNeverLarger ==
    (mp_pc = "done" /\ mp_result.status = "Ok" /\ mp_ran) =>
        /\ file_len(mp_target) <= file_len(mp_source)
        /\ mp_saved => mp_result.new_size < mp_result.original_size
        /\ ~mp_saved => /\ mp_target = mp_source
                        /\ mp_result.new_size = mp_result.original_size

\* C23: if the source carries the tool's marker chunk and force is false,
\* minify_png runs no minification, writes no file, and returns new_size
\* equal to original_size with the previous MinificationInfo; if force is
\* true the marker check is skipped, minification runs and the returned
\* info is None.
C23_MarkedIsSkipped ==
    /\ (mp_pc = "done" /\ ~mp_args.force /\ carries_marker(mp_source)) =>
          /\ ~mp_ran
          /\ mp_written = {}
          /\ mp_target = IF mp_same THEN mp_source ELSE NoFile
          /\ mp_result.status = "Ok"
          /\ mp_result.new_size = mp_result.original_size
          /\ mp_result.original_size = file_len(mp_source)
          /\ mp_result.info = parse_minification_info(first_marker(mp_source))
    /\ (mp_pc = "done" /\ mp_args.force) =>
          /\ mp_ran
          /\ mp_result.info = NoInfo

\* The tenth nearest to v, a tie going to the even tenth, in thousandths.
nearest_tenth(v) ==
    LET t == CHOOSE k \in 0 .. 1001 :
                 \/ 2 * Abs(10 * v.num - k * v.den) < v.den
                 \/ /\ 2 * Abs(10 * v.num - k * v.den) = v.den
                    /\ k % 2 = 0
    IN  [num |-> 100 * t, den |-> THOUSANDTHS]

\* The info a marker written with the given values stands for.
written_info(lossless, quality, reduction_pct, timestamps) ==
    {[quality |-> IF lossless THEN {} ELSE {quality}, lossless |-> lossless,
      reduction_pct |-> nearest_tenth(reduction_pct), timestamp |-> {ts}] :
        ts \in timestamps}

\* A second run, not forced, on a file the run before has written.
SecondRunOnWritten ==
    mp_pc = "done" /\ mp_runs >= 2 /\ mp_prev_saved /\ ~mp_args.force

SecondRunIsSkip ==
    SecondRunOnWritten =>
        /\ ~mp_ran
        /\ mp_written = {}
        /\ mp_result.status = "Ok"
        /\ mp_result.new_size = mp_result.original_size
        /\ \E info \in mp_result.info :
              /\ info.lossless = mp_args.lossless_only
              /\ info.quality = IF mp_args.lossless_only THEN {}
                                ELSE {mp_args.quality}

---------------------------------------------------------------------------
(* Batch mode: main.rs, the parallel loop over the discovered files        *)

\* Largest number of discovered files and number of pool threads running
\* the loop's closure.
BatchMaxFiles == 3
BatchWorkers == 2

\* A lock is held by a worker, or by none (0).
Workers == 1 .. BatchWorkers

\* What process_file does with a file: Ok with a result and no previous
\* info, Ok with the info of a previous minification (the file is skipped),
\* Err, or a panic of the analyzer under --dithering auto on an image less
\* than 2 pixels high (calculate_detail_frequency).
Outcomes == {"ok", "ok_prev_info", "err", "panic"}

Locks == {"processed", "results", "errors"}

\* The worker is idle (between two calls of the closure).
worker_idle == [pc |-> "idle", file |-> 0, current |-> 0]

BInit ==
    /\ b_pc = "run"
    /\ b_total \in 1 .. BatchMaxFiles
    /\ b_outcome \in [1 .. b_total -> Outcomes]
    /\ b_pending = 1 .. b_total
    /\ b_worker = [w \in Workers |-> worker_idle]
    /\ b_lock = [l \in Locks |-> 0]
    /\ processed = 0
    /\ b_printed = <<>>
    /\ results = <<>>
    /\ errors = <<>>
    /\ b_panic = FALSE

BIdle ==
    /\ b_pc = "idle"
    /\ b_total = 0
    /\ b_outcome = <<>>
    /\ b_pending = {}
    /\ b_worker = [w \in Workers |-> worker_idle]
    /\ b_lock = [l \in Locks |-> 0]
    /\ processed = 0
    /\ b_printed = <<>>
    /\ results = <<>>
    /\ errors = <<>>
    /\ b_panic = FALSE

\* into_par_iter().for_each: a pool thread takes a file no thread has taken
\* and calls the closure on it.
BatchTake ==
    /\ b_pc = "run"
    /\ \E w \in Workers : \E f \in b_pending :
          /\ b_worker[w].pc = "idle"
          /\ b_worker' = [b_worker EXCEPT ![w] = [pc |-> "process", file |-> f,
                                                   current |-> 0]]
          /\ b_pending' = b_pending \ {f}
    /\ UNCHANGED <<b_pc, b_total, b_outcome, b_lock, processed, b_printed,
                   results, errors, b_panic>>

\* process_file returns or panics.  No lock is held during the call; a
\* panic ends this call of the closure and is kept by the pool for the
\* caller of for_each.
BatchProcessFile ==
    /\ b_pc = "run"
    /\ \E w \in Workers :
          /\ b_worker[w].pc = "process"
          /\ LET outcome == b_outcome[b_worker[w].file]
             IN  IF outcome = "panic"
                 THEN /\ b_worker' = [b_worker EXCEPT ![w] = worker_idle]
                      /\ b_panic' = TRUE
                 ELSE /\ b_worker' = [b_worker EXCEPT ![w].pc =
                             IF outcome = "err" THEN "lock_errors"
                                                ELSE "lock_processed"]
                      /\ UNCHANGED b_panic
    /\ UNCHANGED <<b_pc, b_total, b_outcome, b_pending, b_lock, processed,
                   b_printed, results, errors>>

\* let mut count = processed.lock(); *count += 1; let current = *count;
\* The guard lives to the end of the arm.
BatchLockProcessed ==
    /\ b_pc = "run"
    /\ \E w \in Workers :
          /\ b_worker[w].pc = "lock_processed"
          /\ b_lock["processed"] = 0
          /\ b_lock' = [b_lock EXCEPT !["processed"] = w]
          /\ processed' = processed + 1
          /\ b_worker' = [b_worker EXCEPT ![w].pc = "print",
                                          ![w].current = processed + 1]
    /\ UNCHANGED <<b_pc, b_total, b_outcome, b_pending, b_printed, results,
                   errors, b_panic>>

\* println!("[{}/{}] ...", current, total_files, ...): every Ok arm prints
\* one progress line (a result without previous info has
\* new_size <= original_size).
BatchPrint ==
    /\ b_pc = "run"
    /\ \E w \in Workers :
          /\ b_worker[w].pc = "print"
          /\ b_printed' = Append(b_printed, b_worker[w].current)
          /\ b_worker' = [b_worker EXCEPT ![w].pc = "lock_results"]
    /\ UNCHANGED <<b_pc, b_total, b_outcome, b_pending, b_lock, processed,
                   results, errors, b_panic>>

\* results.lock(), with the guard of processed still held.
BatchLockResults ==
    /\ b_pc = "run"
    /\ \E w \in Workers :
          /\ b_worker[w].pc = "lock_results"
          /\ b_lock["results"] = 0
          /\ b_lock' = [b_lock EXCEPT !["results"] = w]
          /\ b_worker' = [b_worker EXCEPT ![w].pc = "push_result"]
    /\ UNCHANGED <<b_pc, b_total, b_outcome, b_pending, processed, b_printed,
                   results, errors, b_panic>>

\* .push(result); the guard of results is dropped at the end of the
\* statement and the guard of processed at the end of the arm.
BatchPushResult ==
    /\ b_pc = "run"
    /\ \E w \in Workers :
          /\ b_worker[w].pc = "push_result"
          /\ results' = Append(results, b_worker[w].file)
          /\ b_lock' = [b_lock EXCEPT !["results"] = 0,
                                      !["processed"] = 0]
          /\ b_worker' = [b_worker EXCEPT ![w] = worker_idle]
    /\ UNCHANGED <<b_pc, b_total, b_outcome, b_pending, processed, b_printed,
                   errors, b_panic>>

\* errors.lock() in the Err arm, after the eprintln.
BatchLockErrors ==
    /\ b_pc = "run"
    /\ \E w \in Workers :
          /\ b_worker[w].pc = "lock_errors"
          /\ b_lock["errors"] = 0
          /\ b_lock' = [b_lock EXCEPT !["errors"] = w]
          /\ b_worker' = [b_worker EXCEPT ![w].pc = "push_error"]
    /\ UNCHANGED <<b_pc, b_total, b_outcome, b_pending, processed, b_printed,
                   results, errors, b_panic>>

BatchPushError ==
    /\ b_pc = "run"
    /\ \E w \in Workers :
          /\ b_worker[w].pc = "push_error"
          /\ errors' = Append(errors, b_worker[w].file)
          /\ b_lock' = [b_lock EXCEPT !["errors"] = 0]
          /\ b_worker' = [b_worker EXCEPT ![w] = worker_idle]
    /\ UNCHANGED <<b_pc, b_total, b_outcome, b_pending, processed, b_printed,
                   results, b_panic>>

\* for_each returns when every file has been given to the closure and every
\* call has ended; main unwraps results and errors and prints the summary.
\* If a call panicked, for_each resumes the panic in main once the calls
\* under way have ended, whether or not files are left.
BatchEnd ==
    /\ b_pc = "run"
    /\ \A w \in Workers : b_worker[w].pc = "idle"
    /\ IF b_panic THEN b_pc' = "panicked"
       ELSE b_pending = {} /\ b_pc' = "done"
    /\ UNCHANGED <<b_total, b_outcome, b_pending, b_worker, b_lock, processed,
                   b_printed, results, errors, b_panic>>

---------------------------------------------------------------------------
(* Claims about batch mode (checked under SpecBatch) *)

\* How many entries of a sequence are the given file.
Entries(list, f) == Cardinality({i \in 1 .. Len(list) : list[i] = f})

\* Every file has been entered exactly once, in results or in errors.
EveryFileEntered ==
    /\ \A f \in 1 .. b_total : Entries(results, f) + Entries(errors, f) = 1
    /\ Len(results) + Len(errors) = b_total

\* The progress lines printed so far carry 1, 2, ... in this order, and
\* the counter is the number of increments made under its lock.
IndicesInOrder ==
    /\ \A i \in 1 .. Len(b_printed) : b_printed[i] = i
    /\ processed = Len(b_printed)
                     + Cardinality({w \in Workers : b_worker[w].pc = "print"})
    /\ \A w \in Workers :
          b_worker[w].pc \in {"print", "lock_results", "push_result"}
              <=> b_lock["processed"] = w

\* The lock a worker is waiting for, if any, and freedom from circular
\* waits: a worker that holds the lock another one waits for is not itself
\* waiting for a lock that is held.
Wanted(w) ==
    IF b_worker[w].pc = "lock_processed" THEN {"processed"}
    ELSE IF b_worker[w].pc = "lock_results" THEN {"results"}
    ELSE IF b_worker[w].pc = "lock_errors" THEN {"errors"}
    ELSE {}

Blocked(w) == \E l \in Wanted(w) : b_lock[l] \notin {0, w}

NoDeadlock ==
    \A w \in Workers : \A l \in Wanted(w) :
        b_lock[l] # 0 => ~Blocked(b_lock[l])

\* C30: in batch mode, for every interleaving of the parallel workers,
\* each discovered file is processed exactly once and adds exactly one
\* entry to either results or errors, so after the batch results.len() +
\* errors.len() is the number of files; the progress counter is
\* incremented once per successful file under its lock, so the printed
\* indices are exactly 1..k with no duplicates; and the locks are never
\* acquired in an order that can deadlock.
C30_BatchAccounting ==
    /\ b_pc \in {"done", "panicked"} =>
          /\ EveryFileEntered
          /\ Len(b_printed) = Len(results)
    /\ \A f \in 1 .. b_total : Entries(results, f) + Entries(errors, f) <= 1
    /\ IndicesInOrder
    /\ NoDeadlock

---------------------------------------------------------------------------
(* Specifications *)

InitQuantize == QInit /\ SIdle /\ DIdle /\ MIdle /\ CIdle /\ AIdle /\ NIdle /\ PIdle /\ FIdle /\ BIdle
NextQuantize == QuantizeCall /\ UNCHANGED <<svars, dvars, mvars, cvars, avars, nvars, pvars, fvars, bvars>>
SpecQuantize == InitQuantize /\ [][NextQuantize]_vars

InitSelect == SInit /\ QIdle /\ DIdle /\ MIdle /\ CIdle /\ AIdle /\ NIdle /\ PIdle /\ FIdle /\ BIdle
NextSelect == SelectCall /\ UNCHANGED <<qvars, dvars, mvars, cvars, avars, nvars, pvars, fvars, bvars>>
SpecSelect == InitSelect /\ [][NextSelect]_vars

InitDither == DInit /\ QIdle /\ SIdle /\ MIdle /\ CIdle /\ AIdle /\ NIdle /\ PIdle /\ FIdle /\ BIdle
NextDither ==
    /\ \/ NoDithering
       \/ OrderedDithering
       \/ FloydSteinbergBegin
       \/ FloydSteinbergPixel
       \/ FloydSteinbergEnd
    /\ UNCHANGED <<qvars, svars, mvars, cvars, avars, nvars, pvars, fvars, bvars>>
SpecDither == InitDither /\ [][NextDither]_vars

InitMedian == MInit /\ QIdle /\ SIdle /\ DIdle /\ CIdle /\ AIdle /\ NIdle /\ PIdle /\ FIdle /\ BIdle
NextMedian ==
    /\ \/ MedianSample
       \/ MedianSplit
       \/ MedianPalette
       \/ MedianRow
       \/ MedianWrite
    /\ UNCHANGED <<qvars, svars, dvars, cvars, avars, nvars, pvars, fvars, bvars>>
SpecMedian == InitMedian /\ [][NextMedian]_vars

InitCli == CInit /\ QIdle /\ SIdle /\ DIdle /\ MIdle /\ AIdle /\ NIdle /\ PIdle /\ FIdle /\ BIdle
NextCli ==
    /\ \/ CliParse
       \/ CliValidate
       \/ CliParseMode
       \/ CliPrintSettings
       \/ CliProcess
    /\ UNCHANGED <<qvars, svars, dvars, mvars, avars, nvars, pvars, fvars, bvars>>
SpecCli == InitCli /\ [][NextCli]_vars

InitAnalyze == AInit /\ QIdle /\ SIdle /\ DIdle /\ MIdle /\ CIdle /\ NIdle /\ PIdle /\ FIdle /\ BIdle
NextAnalyze ==
    /\ \/ AnalyzeImage
       \/ SelectMode
    /\ UNCHANGED <<qvars, svars, dvars, mvars, cvars, nvars, pvars, fvars, bvars>>
SpecAnalyze == InitAnalyze /\ [][NextAnalyze]_vars

InitDenoise == NInit /\ QIdle /\ SIdle /\ DIdle /\ MIdle /\ CIdle /\ AIdle /\ PIdle /\ FIdle /\ BIdle
NextDenoise == SelectiveDenoising /\ UNCHANGED <<qvars, svars, dvars, mvars, cvars, avars, pvars, fvars, bvars>>
SpecDenoise == InitDenoise /\ [][NextDenoise]_vars

InitPipeline == PInit /\ QIdle /\ SIdle /\ DIdle /\ MIdle /\ CIdle /\ AIdle /\ NIdle /\ FIdle /\ BIdle
NextPipeline ==
    /\ \/ ResolveMode
       \/ ApplyQuantization
    /\ UNCHANGED <<qvars, svars, dvars, mvars, cvars, avars, nvars, fvars, bvars>>
SpecPipeline == InitPipeline /\ [][NextPipeline]_vars

InitFile == FInit /\ QIdle /\ SIdle /\ DIdle /\ MIdle /\ CIdle /\ AIdle /\ NIdle /\ PIdle /\ BIdle
NextFile ==
    /\ \/ AddMarker
       \/ CheckMarker
       \/ MinifyPng
       \/ MinifyAgain
    /\ UNCHANGED <<qvars, svars, dvars, mvars, cvars, avars, nvars, pvars, bvars>>
SpecFile == InitFile /\ [][NextFile]_vars

InitBatch == BInit /\ QIdle /\ SIdle /\ DIdle /\ MIdle /\ CIdle /\ AIdle /\ NIdle /\ PIdle /\ FIdle
NextBatch ==
    /\ \/ BatchTake
       \/ BatchProcessFile
       \/ BatchLockProcessed
       \/ BatchPrint
       \/ BatchLockResults
       \/ BatchPushResult
       \/ BatchLockErrors
       \/ BatchPushError
       \/ BatchEnd
    /\ UNCHANGED <<qvars, svars, dvars, mvars, cvars, avars, nvars, pvars, fvars>>
SpecBatch == InitBatch /\ [][NextBatch]_vars

=============================================================================
